---- MODULE Spec2Model ----
\* Named-lock coordination on top of MySQL GET_LOCK / RELEASE_LOCK as used by
\* toumakido/named-lock: the database/sql connection pool, the session-scoped
\* named locks, the plain AcquireLock / ReleaseLock service calls and the
\* transaction-scoped composite operations.
EXTENDS Integers, Sequences, FiniteSets, TLC

\* ------------------------------------------------------------------ bounds
NumWorkers == 2        \* concurrent callers (one goroutine per request)
MaxConns == 4          \* connections the server ever opens in one run
MaxCalls == 3          \* service calls issued in one run
MaxFaults == 1         \* capability calls that fail in one run
MaxWait == 2           \* longest positive GET_LOCK timeout, in seconds
PoolSize == 2          \* connections a bounded pool may have open

\* ------------------------------------------------- values fixed by the code
MaxIdleConns == 2      \* database/sql default for a pool opened by sql.Open

Workers == 1..NumWorkers
Conns == 1..MaxConns
NoConn == 0
Names == {"P001", "P999"}
Timeouts == {-1, 0}
NoErr == ""
Deltas == {3, 5}
Absent == -1
SvcVariants == {"plain", "strict"}

\* ------------------------------------------------------------- conversions
Digit(d) ==
  CASE d = 0 -> "0" [] d = 1 -> "1" [] d = 2 -> "2" [] d = 3 -> "3" [] d = 4 -> "4"
    [] d = 5 -> "5" [] d = 6 -> "6" [] d = 7 -> "7" [] d = 8 -> "8" [] OTHER -> "9"

RECURSIVE FormatInt(_)
\* fmt.Sprintf("%d", id) / strconv.FormatInt(id, 10) of a non-negative id:
\* the decimal digits, most significant first.
FormatInt(n) == IF n < 10 THEN <<Digit(n)>> ELSE FormatInt(n \div 10) \o <<Digit(n % 10)>>

EmptyStr == << >>

NullInt(v, i) == [Valid |-> v, Int64 |-> i]

\* int(result.Int64) after Scan into sql.NullInt64: NULL leaves Int64 at 0.
ToInt(r) == r.Int64

VARIABLES
  svc,       \* which AcquireLock / ReleaseLock variant the server runs
  up,        \* the server process runs (FALSE once main has shut down)
  hreq,      \* handler layer: the request being answered and how its steps fare
  hresp,     \* handler layer: the HTTP response written for hreq
  conn,      \* pool: connection -> "new" | "idle" | "busy" | "closed"
  nextConn,  \* CONNECTION_ID() of the next connection the pool opens
  nlock,     \* server side: lock name -> connection -> GET_LOCK depth
  history,   \* lock_history rows, oldest first
  products,  \* committed products(code, quantity): code -> quantity or Absent
  inventory, \* committed product_inventory rows [id, pid, qty]
  orders,    \* committed orders rows [id, pid, qty, status]
  orderRows, \* committed orders(id, code) rows of the order variant: code -> count
  nextId,    \* AUTO_INCREMENT counters [inv, ord]
  tx,        \* caller -> connection pinned by its sql.Tx (NoConn when none)
  txEnd,     \* caller -> "none" | "open" | "committed" | "rolledback"
  pend,      \* caller -> uncommitted writes of its transaction
  rlock,     \* row key -> caller whose transaction holds the row lock (0: none)
  pc,        \* caller -> position inside the running service call
  op,        \* caller -> running service call
  arg,       \* caller -> arguments of the running call
  cur,       \* caller -> connection checked out for the running pool query
  loc,       \* caller -> local variables of the running call
  ret,       \* caller -> values returned by the call that finished last
  calls,     \* number of calls issued so far
  faults,    \* capability faults injected so far
  granted,   \* observer: name -> grants AcquireLock returned less releases ReleaseLock returned
  okSum,     \* observer: operation, code -> sum of the deltas of the calls that returned success
  insCnt     \* observer: code -> committed inserts into products

cfgVars == <<svc, up, hreq, hresp>>
poolVars == <<conn, nextConn>>
dbVars == <<products, inventory, orders, orderRows>>
obsVars == <<granted, okSum, insCnt>>
vars == <<svc, up, hreq, hresp, conn, nextConn, nlock, history, products, inventory, orders, orderRows, nextId,
          tx, txEnd, pend, rlock, pc, op, arg, cur, loc, ret, calls, faults, granted, okSum, insCnt>>

\* ------------------------------------------------------------ pool (sql.DB)
IdleConns(cn) == {c \in Conns : cn[c] = "idle"}

\* db.conn(): a free connection when there is one, otherwise a new one.
Checkable(c) ==
  IF IdleConns(conn) # {} THEN c \in IdleConns(conn)
  ELSE c = nextConn /\ nextConn <= MaxConns

NextAfterCheckout(c) == IF c = nextConn THEN nextConn + 1 ELSE nextConn

\* db.putConn(): keep the connection idle while fewer than MaxIdleConns are
\* idle, otherwise close it.
PutKeeps(cn) == Cardinality(IdleConns(cn)) < MaxIdleConns
PutConn(cn, c) == [cn EXCEPT ![c] = IF PutKeeps(cn) THEN "idle" ELSE "closed"]

\* Variant: the named locks of a closed session stay.
LocksKeptAfterClose(cn, nl, c) == nl

\* A closed session loses every named lock it holds.
LocksAfterPut(cn, nl, c) ==
  IF PutKeeps(cn) THEN nl ELSE [n \in Names |-> [nl[n] EXCEPT ![c] = 0]]

\* ------------------------------------------------- capability (MySQL 8.0)
Holds(c, n) == c # NoConn /\ nlock[n][c] > 0
HoldersIn(nl, n) == {c \in Conns : nl[n][c] > 0}
Holders(n) == HoldersIn(nlock, n)

\* Variant: GET_LOCK grants whatever other sessions hold.
GrantRegardless(c, n) == TRUE

\* Variant: GET_LOCK is granted only while nobody, the caller included, holds n.
GrantWhenFree(c, n) == Holders(n) = {}

\* GET_LOCK(n, t) on session c is granted when no other session holds n.
CanGrant(c, n) == Holders(n) \subseteq {c}

\* Variant: a contended GET_LOCK answers 0 at once whatever the timeout.
GetLockNoWait(c, n, t, waited) ==
  IF CanGrant(c, n) THEN {NullInt(TRUE, 1)} ELSE {NullInt(TRUE, 0)}

\* Possible results of SELECT GET_LOCK(n, t) on session c, which has waited
\* for `waited` seconds, in this state: 1 when granted; when contended, 0 once
\* t seconds have passed (at once for t = 0) and nothing yet before that, nor
\* ever for t < 0.
GetLockResults(c, n, t, waited) ==
  IF CanGrant(c, n) THEN {NullInt(TRUE, 1)}
  ELSE IF t >= 0 /\ waited >= t THEN {NullInt(TRUE, 0)} ELSE {}

LocksAfterGet(nl, c, n, r) ==
  IF r.Valid /\ r.Int64 = 1 THEN [nl EXCEPT ![n][c] = @ + 1] ELSE nl

\* SELECT RELEASE_LOCK(n) on session c: 1 when c holds n, 0 when another
\* session holds it, NULL when nobody holds it.
ReleaseResult(c, n) ==
  IF Holds(c, n) THEN NullInt(TRUE, 1)
  ELSE IF Holders(n) # {} THEN NullInt(TRUE, 0) ELSE NullInt(FALSE, 0)

\* Variant: RELEASE_LOCK answers but the session keeps the name.
LocksKeptAfterRelease(nl, c, n) == nl

LocksAfterRelease(nl, c, n) ==
  IF nl[n][c] > 0 THEN [nl EXCEPT ![n][c] = @ - 1] ELSE nl

CanFault == faults < MaxFaults
Fault == faults' = faults + 1

\* --------------------------------------------------------------- call frame
NilRow == [id |-> 0]
NoLoc == [sid |-> 0, sid2 |-> 0, sid3 |-> 0, found |-> FALSE, row |-> NilRow, waited |-> 0]
NoRet == [ok |-> FALSE, sid |-> EmptyStr, err |-> NoErr]
NoArg == [name |-> "P001", timeout |-> 0, qty |-> 0]
NoWrite == [kind |-> "none", qty |-> 0]
NoPend == [prod |-> NoWrite, inv |-> {}, ord |-> {}, oins |-> 0]
Tables == {"products", "product_inventory", "orders"}
RowKeys == Tables \X Names
CompositeOps == {"Hold", "Product", "Order", "Process"}

\* ------------------------------------------------------------ HTTP handlers
\* The four LockHandler versions of the repository: echo handlers that answer
\* every error with 200 (two of them), echo handlers and net/http handlers
\* that answer errors with 4xx / 5xx.
HandlerVariants == {"echoOK", "echoStatus", "echoOKFull", "muxStatus"}

\* RegisterRoutes of each version.
Endpoints(h) ==
  CASE h = "echoOK" -> {"Session", "Hold", "Process"}
    [] h = "muxStatus" -> {"AcquireLock", "ReleaseLock", "Status", "Session"}
    [] OTHER -> {"AcquireLock", "ReleaseLock", "Status", "Session", "Hold"}

\* The steps of a handler that can fail, in the order it runs them.
HandlerSteps(h, e) ==
  CASE e = "AcquireLock" -> <<"bind", "session", "service", "owner">>
    [] e = "ReleaseLock" -> <<"session", "service">>
    [] e = "Status" -> <<"session", "owner", "isfree">>
    [] e = "Session" -> <<"session">>
    [] e = "Hold" -> IF h = "echoStatus" THEN <<"bind", "session", "service", "owner">>
                     ELSE <<"bind", "service">>
    [] OTHER -> <<"bind", "service", "session">>

StepNames(h, e) == {HandlerSteps(h, e)[i] : i \in DOMAIN HandlerSteps(h, e)}

\* A request: the handler version, the endpoint, the step that fails ("none"
\* when none does) and the success flag the service call returns.
HandlerInputs ==
  {[h |-> h, e |-> e, fail |-> f, svcOk |-> b] :
     h \in HandlerVariants,
     e \in {"AcquireLock", "ReleaseLock", "Status", "Session", "Hold", "Process"},
     f \in {"none", "bind", "session", "service", "owner", "isfree"},
     b \in BOOLEAN}

ValidInput(r) == r.e \in Endpoints(r.h) /\ r.fail \in StepNames(r.h, r.e) \cup {"none"}

\* GetLockOwner is asked only after the service call reported no success.
StepRuns(r) ==
  /\ r.fail # "none"
  /\ r.fail = "owner" /\ r.e # "Status" => ~r.svcOk

\* The response a handler writes when a step fails.
ErrorResponse(h, step) ==
  IF h \in {"echoOK", "echoOKFull"}
  THEN [status |-> 200, hasSuccess |-> TRUE, success |-> FALSE, message |-> TRUE]
  ELSE [status |-> IF step = "bind" THEN 400 ELSE 500,
        hasSuccess |-> FALSE, success |-> FALSE, message |-> TRUE]

\* The response when no step fails: LockResponse, or the status / session
\* structure, which has no success field.
OkResponse(r) ==
  IF r.e \in {"Status", "Session"}
  THEN [status |-> 200, hasSuccess |-> FALSE, success |-> FALSE, message |-> FALSE]
  ELSE IF r.e \in {"AcquireLock", "ReleaseLock"} \/ r.h = "echoStatus"
  THEN [status |-> 200, hasSuccess |-> TRUE, success |-> r.svcOk, message |-> TRUE]
  ELSE [status |-> 200, hasSuccess |-> TRUE, success |-> TRUE, message |-> r.e = "Process"]

HandlerResponse(r) == IF StepRuns(r) THEN ErrorResponse(r.h, r.fail) ELSE OkResponse(r)

NoReq == [h |-> "echoOK", e |-> "Session", fail |-> "none", svcOk |-> TRUE]
NoResp == [status |-> 0, hasSuccess |-> FALSE, success |-> FALSE, message |-> FALSE]

Init ==
  /\ svc \in SvcVariants
  /\ hreq = NoReq
  /\ hresp = NoResp
  /\ up = TRUE
  /\ conn = [c \in Conns |-> IF c = 1 THEN "idle" ELSE "new"]
  /\ nextConn = 2
  /\ nlock = [n \in Names |-> [c \in Conns |-> 0]]
  /\ history = << >>
  /\ products = [n \in Names |-> Absent]
  /\ inventory = {[id |-> 1, pid |-> 1, qty |-> 10]}
  /\ orders = {[id |-> 1, pid |-> 1, qty |-> 5, status |-> "pending"]}
  /\ orderRows = [n \in Names |-> 0]
  /\ nextId = [inv |-> 2, ord |-> 2]
  /\ tx = [w \in Workers |-> NoConn]
  /\ txEnd = [w \in Workers |-> "none"]
  /\ pend = [w \in Workers |-> NoPend]
  /\ rlock = [k \in RowKeys |-> 0]
  /\ pc = [w \in Workers |-> "idle"]
  /\ op = [w \in Workers |-> "none"]
  /\ arg = [w \in Workers |-> NoArg]
  /\ cur = [w \in Workers |-> NoConn]
  /\ loc = [w \in Workers |-> NoLoc]
  /\ ret = [w \in Workers |-> NoRet]
  /\ calls = 0
  /\ faults = 0
  /\ granted = [n \in Names |-> 0]
  /\ okSum = [o \in {"Product", "Process"} |-> [n \in Names |-> 0]]
  /\ insCnt = [n \in Names |-> 0]

\* ------------------------------------------------------------- call entry
FirstPc(o) ==
  CASE o = "AcquireLock" -> "al_sid"
    [] o = "ReleaseLock" -> "rl_sid"
    [] o = "IsLockFree" -> "if_q"
    [] o = "GetLockOwner" -> "go_q"
    [] o = "Status" -> "st_sid"
    [] o = "Hold" -> "h_begin"
    [] o = "Product" -> "p_begin"
    [] o = "Order" -> "o_begin"
    [] o = "Process" -> "q_begin"
    [] OTHER -> "idle"

Req(o, n, t, q) == [op |-> o, arg |-> [name |-> n, timeout |-> t, qty |-> q]]

\* A caller issues its next request, one of Menu (handler entry).
Call(w, Menu) ==
  /\ pc[w] \in {"idle", "done"}
  /\ calls < MaxCalls
  /\ \A v \in Workers : v < w => pc[v] \notin {"idle", "done"}
  /\ \E m \in Menu :
       /\ op' = [op EXCEPT ![w] = m.op]
       /\ arg' = [arg EXCEPT ![w] = m.arg]
       /\ pc' = [pc EXCEPT ![w] = FirstPc(m.op)]
  /\ loc' = [loc EXCEPT ![w] = NoLoc]
  /\ ret' = [ret EXCEPT ![w] = NoRet]
  /\ txEnd' = [txEnd EXCEPT ![w] = "none"]
  /\ calls' = calls + 1
  /\ UNCHANGED <<cfgVars, poolVars, nlock, history, dbVars, nextId, tx, pend, rlock, cur, faults, obsVars>>

Finish(w, ok, sid, err) ==
  /\ pc' = [pc EXCEPT ![w] = "done"]
  /\ ret' = [ret EXCEPT ![w] = [ok |-> ok, sid |-> sid, err |-> err]]
  /\ loc' = [loc EXCEPT ![w] = NoLoc]

Goto(w, p, l) ==
  /\ pc' = [pc EXCEPT ![w] = p]
  /\ loc' = [loc EXCEPT ![w] = l]
  /\ UNCHANGED ret

\* ------------------------------------------------ queries through the pool
PoolPcs == {"al_sid", "al_lock", "al_hist", "rl_sid", "rl_rel", "rl_hist", "if_q", "go_q", "st_sid", "st_owner", "st_free", "o_list"}

\* db.QueryRow / db.Exec on *sql.DB: the query first takes a connection.
Checkout(w) ==
  /\ pc[w] \in PoolPcs
  /\ cur[w] = NoConn
  /\ \E c \in Conns :
       /\ Checkable(c)
       /\ cur' = [cur EXCEPT ![w] = c]
       /\ conn' = [conn EXCEPT ![c] = "busy"]
       /\ nextConn' = NextAfterCheckout(c)
  /\ UNCHANGED <<cfgVars, nlock, history, dbVars, nextId, tx, txEnd, pend, rlock,
                 pc, op, arg, loc, ret, calls, faults, obsVars>>

\* The query is over: the connection goes back to the pool.
Putback(w, nl) ==
  /\ conn' = PutConn(conn, cur[w])
  /\ nlock' = LocksAfterPut(conn, nl, cur[w])
  /\ cur' = [cur EXCEPT ![w] = NoConn]
  /\ UNCHANGED nextConn

\* What a step of AcquireLock / ReleaseLock leaves alone.
PlainFrame == UNCHANGED <<cfgVars, dbVars, nextId, tx, txEnd, pend, rlock, op, arg, calls, okSum, insCnt>>

\* -------------------------------------------------------------- AcquireLock
\* What AcquireLock returns when GET_LOCK did not return 1.
AcquireLockContended(v) ==
  IF v = "plain" THEN [ok |-> FALSE, sid |-> EmptyStr, err |-> NoErr]
  ELSE [ok |-> FALSE, sid |-> EmptyStr,
        err |-> "failed to acquire lock: lock is already held by another session"]

AcquireLock_ConnID(w) ==
  /\ pc[w] = "al_sid" /\ cur[w] # NoConn
  /\ \/ /\ Goto(w, "al_lock", [loc[w] EXCEPT !.sid = cur[w]])
        /\ UNCHANGED faults
     \/ /\ CanFault /\ Fault
        /\ Finish(w, FALSE, EmptyStr, "failed to get connection id: failed to get connection id")
  /\ Putback(w, nlock)
  /\ PlainFrame /\ UNCHANGED <<history, granted>>

AcquireLock_GetNamedLock(w) ==
  /\ pc[w] = "al_lock" /\ cur[w] # NoConn
  /\ \/ \E r \in GetLockResults(cur[w], arg[w].name, arg[w].timeout, loc[w].waited) :
          /\ Putback(w, LocksAfterGet(nlock, cur[w], arg[w].name, r))
          /\ IF ToInt(r) = 1
             THEN Goto(w, "al_hist", [loc[w] EXCEPT !.waited = 0])
             ELSE LET x == AcquireLockContended(svc) IN Finish(w, x.ok, x.sid, x.err)
          /\ UNCHANGED faults
     \/ \* GET_LOCK answered NULL
        /\ CanFault /\ Fault
        /\ Putback(w, nlock)
        /\ LET x == AcquireLockContended(svc) IN Finish(w, x.ok, x.sid, x.err)
     \/ \* the query itself failed
        /\ CanFault /\ Fault
        /\ Putback(w, nlock)
        /\ Finish(w, FALSE, EmptyStr, "failed to acquire lock: failed to get lock")
  /\ PlainFrame /\ UNCHANGED <<history, granted>>

\* db.SaveLockHistory(lockName, sessionID, status)
SaveLockHistory(h, n, sid, status) ==
  IF status = "acquired"
  THEN Append(h, [name |-> n, sid |-> sid, status |-> "acquired"])
  ELSE [i \in DOMAIN h |->
          IF h[i].name = n /\ h[i].sid = sid /\ h[i].status = "acquired"
          THEN [h[i] EXCEPT !.status = status] ELSE h[i]]

\* Variant: a failed history write fails the whole AcquireLock.
AcquireLock_HistoryRequired(w) ==
  /\ pc[w] = "al_hist" /\ cur[w] # NoConn
  /\ \/ /\ history' = SaveLockHistory(history, arg[w].name, FormatInt(loc[w].sid), "acquired")
        /\ UNCHANGED faults
        /\ Finish(w, TRUE, FormatInt(loc[w].sid), NoErr)
        /\ granted' = [granted EXCEPT ![arg[w].name] = @ + 1]
     \/ /\ CanFault /\ Fault
        /\ UNCHANGED <<history, granted>>
        /\ Finish(w, FALSE, EmptyStr, "failed to save lock history")
  /\ Putback(w, nlock)
  /\ PlainFrame

AcquireLock_SaveLockHistory(w) ==
  /\ pc[w] = "al_hist" /\ cur[w] # NoConn
  /\ \/ /\ history' = SaveLockHistory(history, arg[w].name, FormatInt(loc[w].sid), "acquired")
        /\ UNCHANGED faults
     \/ /\ CanFault /\ Fault
        /\ UNCHANGED history
  /\ Putback(w, nlock)
  /\ Finish(w, TRUE, FormatInt(loc[w].sid), NoErr)
  /\ granted' = [granted EXCEPT ![arg[w].name] = @ + 1]
  /\ PlainFrame

\* -------------------------------------------------------------- ReleaseLock
\* What ReleaseLock returns when RELEASE_LOCK did not return 1.
ReleaseLockNotHeld(v) ==
  IF v = "plain" THEN [ok |-> FALSE, err |-> NoErr]
  ELSE [ok |-> FALSE,
        err |-> "failed to release lock: lock is not held by this session or does not exist"]

ReleaseLock_ConnID(w) ==
  /\ pc[w] = "rl_sid" /\ cur[w] # NoConn
  /\ \/ /\ Goto(w, "rl_rel", [loc[w] EXCEPT !.sid = cur[w]])
        /\ UNCHANGED faults
     \/ /\ CanFault /\ Fault
        /\ Finish(w, FALSE, EmptyStr, "failed to get connection id: failed to get connection id")
  /\ Putback(w, nlock)
  /\ PlainFrame /\ UNCHANGED <<history, granted>>

ReleaseLock_ReleaseNamedLock(w) ==
  /\ pc[w] = "rl_rel" /\ cur[w] # NoConn
  /\ \/ LET r == ReleaseResult(cur[w], arg[w].name) IN
          /\ Putback(w, LocksAfterRelease(nlock, cur[w], arg[w].name))
          /\ IF ToInt(r) = 1
             THEN Goto(w, "rl_hist", loc[w])
             ELSE LET x == ReleaseLockNotHeld(svc) IN Finish(w, x.ok, EmptyStr, x.err)
          /\ UNCHANGED faults
     \/ /\ CanFault /\ Fault
        /\ Putback(w, nlock)
        /\ Finish(w, FALSE, EmptyStr, "failed to release lock: failed to release lock")
  /\ PlainFrame /\ UNCHANGED <<history, granted>>

ReleaseLock_SaveLockHistory(w) ==
  /\ pc[w] = "rl_hist" /\ cur[w] # NoConn
  /\ \/ /\ history' = SaveLockHistory(history, arg[w].name, FormatInt(loc[w].sid), "released")
        /\ UNCHANGED faults
     \/ /\ CanFault /\ Fault
        /\ UNCHANGED history
  /\ Putback(w, nlock)
  /\ Finish(w, TRUE, EmptyStr, NoErr)
  /\ granted' = [granted EXCEPT ![arg[w].name] = @ - 1]
  /\ PlainFrame

\* --------------------------------------------------------------- IsLockFree
\* SELECT IS_FREE_LOCK(n): 1 when no session holds n, 0 when one does.
IsFreeResult(n) == IF Holders(n) = {} THEN NullInt(TRUE, 1) ELSE NullInt(TRUE, 0)

\* Variant: NULL is taken for "held".
FreeOnlyWhenOne(r) == r.Valid /\ r.Int64 = 1

\* if !result.Valid { return true, nil }; return result.Int64 == 1, nil
IsLockFreeAnswer(r) == IF ~r.Valid THEN TRUE ELSE r.Int64 = 1

\* s.db.IsFreeLock(lockName) through the pool, then the answer.
IsLockFree_IsFreeLock(w) ==
  /\ pc[w] = "if_q" /\ cur[w] # NoConn
  /\ \/ /\ Finish(w, IsLockFreeAnswer(IsFreeResult(arg[w].name)), EmptyStr, NoErr)
        /\ UNCHANGED faults
     \/ \* IS_FREE_LOCK answered NULL
        /\ CanFault /\ Fault
        /\ Finish(w, IsLockFreeAnswer(NullInt(FALSE, 0)), EmptyStr, NoErr)
     \/ \* the query itself failed
        /\ CanFault /\ Fault
        /\ Finish(w, FALSE, EmptyStr,
                  "failed to check if lock is free: failed to check if lock is free")
  /\ Putback(w, nlock)
  /\ PlainFrame /\ UNCHANGED <<history, granted>>

\* ------------------------------------------------------------- GetLockOwner
\* Variant: IS_USED_LOCK answers 0, not NULL, for a free name.
IsUsedZeroWhenFree(n) ==
  IF Holders(n) = {} THEN NullInt(TRUE, 0)
  ELSE NullInt(TRUE, CHOOSE c \in Holders(n) : TRUE)

\* SELECT IS_USED_LOCK(n): the connection id of the holder, NULL when free.
IsUsedResult(n) ==
  IF Holders(n) = {} THEN NullInt(FALSE, 0)
  ELSE NullInt(TRUE, CHOOSE c \in Holders(n) : TRUE)

\* Variant: the owner id is formatted whether or not the result is NULL.
OwnerAnswerUnchecked(r) == [ok |-> r.Valid, sid |-> FormatInt(r.Int64)]

\* if result.Valid { return true, fmt.Sprintf("%d", result.Int64), nil }
\* return false, "", nil
GetLockOwnerAnswer(r) ==
  IF r.Valid THEN [ok |-> TRUE, sid |-> FormatInt(r.Int64)]
  ELSE [ok |-> FALSE, sid |-> EmptyStr]

\* s.db.GetLockOwner(lockName) through the pool, then the answer.
GetLockOwner_GetLockOwner(w) ==
  /\ pc[w] = "go_q" /\ cur[w] # NoConn
  /\ \/ /\ LET x == GetLockOwnerAnswer(IsUsedResult(arg[w].name)) IN
             Finish(w, x.ok, x.sid, NoErr)
        /\ UNCHANGED faults
     \/ \* the query itself failed
        /\ CanFault /\ Fault
        /\ Finish(w, FALSE, EmptyStr, "failed to get lock owner: failed to get lock owner")
  /\ Putback(w, nlock)
  /\ PlainFrame /\ UNCHANGED <<history, granted>>

\* ------------------------------------------------------------ GetLockStatus
\* The status response: is_locked, owner_session_id, current_session_id,
\* is_owned_by_current_session and the error; ok is FALSE when "success":
\* false is written.
StatusResponse(locked, owner, current, owned, err) ==
  [ok |-> err = NoErr, sid |-> current, err |-> err,
   locked |-> locked, owner |-> owner, owned |-> owned]

\* The LockStatusResponse written when no call failed.
StatusOk(x, current) ==
  StatusResponse(x.ok, IF x.ok THEN x.sid ELSE EmptyStr, current,
                 IF x.ok THEN x.sid = current ELSE FALSE, NoErr)

Respond(w, r) ==
  /\ pc' = [pc EXCEPT ![w] = "done"]
  /\ ret' = [ret EXCEPT ![w] = r]
  /\ loc' = [loc EXCEPT ![w] = NoLoc]

\* h.lockService.GetCurrentSessionID()
GetLockStatus_GetCurrentSessionID(w) ==
  /\ pc[w] = "st_sid" /\ cur[w] # NoConn
  /\ \/ /\ Goto(w, "st_owner", [loc[w] EXCEPT !.sid = cur[w]])
        /\ UNCHANGED faults
     \/ /\ CanFault /\ Fault
        /\ Respond(w, StatusResponse(FALSE, EmptyStr, EmptyStr, FALSE,
                                     "Failed to get current session ID: failed to get connection id"))
  /\ Putback(w, nlock)
  /\ PlainFrame /\ UNCHANGED <<history, granted>>

\* h.lockService.GetLockOwner(lockName)
GetLockStatus_GetLockOwner(w) ==
  /\ pc[w] = "st_owner" /\ cur[w] # NoConn
  /\ \/ /\ Goto(w, "st_free", [loc[w] EXCEPT !.row = GetLockOwnerAnswer(IsUsedResult(arg[w].name))])
        /\ UNCHANGED faults
     \/ /\ CanFault /\ Fault
        /\ Respond(w, StatusResponse(FALSE, EmptyStr, FormatInt(loc[w].sid), FALSE,
                                     "Failed to get lock owner: failed to get lock owner"))
  /\ Putback(w, nlock)
  /\ PlainFrame /\ UNCHANGED <<history, granted>>

\* h.lockService.IsLockFree(lockName), whose answer is dropped, then the
\* response.
GetLockStatus_IsLockFree(w) ==
  /\ pc[w] = "st_free" /\ cur[w] # NoConn
  /\ \/ /\ Respond(w, StatusOk(loc[w].row, FormatInt(loc[w].sid)))
        /\ UNCHANGED faults
     \/ \* IS_FREE_LOCK answered NULL: IsLockFree returns true, nil
        /\ CanFault /\ Fault
        /\ Respond(w, StatusOk(loc[w].row, FormatInt(loc[w].sid)))
     \/ \* the query itself failed
        /\ CanFault /\ Fault
        /\ Respond(w, StatusResponse(loc[w].row.ok, loc[w].row.sid, FormatInt(loc[w].sid), FALSE,
                                     "Failed to check if lock is free: failed to check if lock is free"))
  /\ Putback(w, nlock)
  /\ PlainFrame /\ UNCHANGED <<history, granted>>

GetLockStatus(w) ==
  \/ GetLockStatus_GetCurrentSessionID(w)
  \/ GetLockStatus_GetLockOwner(w)
  \/ GetLockStatus_IsLockFree(w)

\* ------------------------------------------------------------ transactions
\* What a step inside an open transaction leaves alone.
TxFrame == UNCHANGED <<cfgVars, conn, nextConn, history, dbVars, tx, txEnd, op, arg, cur, calls, obsVars>>

\* db.BeginTx(ctx): the transaction pins one connection of the pool.
BeginTx(w, p) ==
  /\ \/ \E c \in Conns :
          /\ Checkable(c)
          /\ conn' = [conn EXCEPT ![c] = "busy"]
          /\ nextConn' = NextAfterCheckout(c)
          /\ tx' = [tx EXCEPT ![w] = c]
          /\ txEnd' = [txEnd EXCEPT ![w] = "open"]
          /\ Goto(w, p, loc[w])
          /\ UNCHANGED faults
     \/ /\ CanFault /\ Fault
        /\ Finish(w, FALSE, EmptyStr, "failed to begin transaction: failed to begin transaction")
        /\ UNCHANGED <<conn, nextConn, tx, txEnd>>
  /\ UNCHANGED <<cfgVars, nlock, history, dbVars, nextId, pend, rlock, op, arg, cur, calls, obsVars>>

RowLocksWithout(w) == [k \in RowKeys |-> IF rlock[k] = w THEN 0 ELSE rlock[k]]

\* Variant: the deferred call rolls back whatever the transaction has done.
RollbackUndoesCommit(end) == "rolledback"

\* defer tx.Rollback(): it ends a transaction that is still open and has no
\* effect on one that Commit has ended.
DeferredRollback(end) == IF end = "open" THEN "rolledback" ELSE end

\* Variant: the deferred call ends the transaction as committed.
EndsCommitted(w, nl) ==
  /\ txEnd' = [txEnd EXCEPT ![w] = "committed"]
  /\ pend' = [pend EXCEPT ![w] = NoPend]
  /\ rlock' = RowLocksWithout(w)
  /\ conn' = PutConn(conn, tx[w])
  /\ nlock' = LocksAfterPut(conn, nl, tx[w])
  /\ tx' = [tx EXCEPT ![w] = NoConn]
  /\ UNCHANGED <<nextConn, dbVars>>

\* tx.Rollback(): the writes are dropped, the row locks go, the connection
\* returns to the pool. Named locks stay with the connection.
RollbackTx(w, nl) ==
  /\ txEnd' = [txEnd EXCEPT ![w] = DeferredRollback(txEnd[w])]
  /\ pend' = [pend EXCEPT ![w] = NoPend]
  /\ rlock' = RowLocksWithout(w)
  /\ conn' = PutConn(conn, tx[w])
  /\ nlock' = LocksAfterPut(conn, nl, tx[w])
  /\ tx' = [tx EXCEPT ![w] = NoConn]
  /\ UNCHANGED <<nextConn, dbVars>>

\* Variant: the error return without the deferred tx.Rollback().
FailTxNoRollback(w, sid, err, nl) ==
  /\ Finish(w, FALSE, sid, err)
  /\ nlock' = nl
  /\ UNCHANGED <<cfgVars, conn, nextConn, history, dbVars, nextId, tx, txEnd, pend, rlock,
                 op, arg, cur, calls, obsVars>>

\* return ..., err with the deferred tx.Rollback()
FailTx(w, sid, err, nl) ==
  /\ RollbackTx(w, nl)
  /\ Finish(w, FALSE, sid, err)
  /\ UNCHANGED <<cfgVars, history, nextId, op, arg, cur, calls, obsVars>>

UpsertRows(rows, ups) == {r \in rows : \A u \in ups : u.id # r.id} \cup ups

\* tx.Commit(): the writes of the transaction become the committed tables.
CommitTx(w) ==
  /\ txEnd' = [txEnd EXCEPT ![w] = DeferredRollback("committed")]
  /\ products' = IF pend[w].prod.kind = "none" THEN products
                 ELSE [products EXCEPT ![arg[w].name] = pend[w].prod.qty]
  /\ inventory' = UpsertRows(inventory, pend[w].inv)
  /\ orders' = UpsertRows(orders, pend[w].ord)
  /\ orderRows' = [orderRows EXCEPT ![arg[w].name] = @ + pend[w].oins]
  /\ pend' = [pend EXCEPT ![w] = NoPend]
  /\ rlock' = RowLocksWithout(w)
  /\ conn' = PutConn(conn, tx[w])
  /\ nlock' = LocksAfterPut(conn, nlock, tx[w])
  /\ tx' = [tx EXCEPT ![w] = NoConn]
  /\ insCnt' = IF pend[w].prod.kind = "insert"
               THEN [insCnt EXCEPT ![arg[w].name] = @ + 1] ELSE insCnt
  /\ UNCHANGED nextConn

\* Variant: the read before release goes through the pool, not the transaction.
ConnIDThroughPool(w) ==
  IF pc[w] = "h_sid3" THEN CHOOSE c \in Conns : c # tx[w] ELSE tx[w]

\* tx.GetCurrentConnectionID(): SELECT CONNECTION_ID() on the pinned connection
TxConnID(w) == tx[w]

\* Variant: the result of tx.GetNamedLock is not tested.
AcquireUntested(result) == TRUE

\* The test the composites apply to the result of tx.GetNamedLock.
AcquireOk(result) == result = 1

\* Variant: whatever GET_LOCK answers, the call goes on at p.
TxGetNamedLockUnchecked(w, p, sid, errResult) ==
  \E r \in GetLockResults(tx[w], arg[w].name, arg[w].timeout, loc[w].waited) :
    /\ nlock' = LocksAfterGet(nlock, tx[w], arg[w].name, r)
    /\ Goto(w, p, [loc[w] EXCEPT !.waited = 0])
    /\ UNCHANGED <<pend, rlock, nextId, faults>>
    /\ TxFrame

\* tx.GetNamedLock(lockName, timeout) followed by the result test; on success
\* the call goes on at p, otherwise it returns sid and an error.
TxGetNamedLock(w, p, sid, errResult) ==
  \/ \E r \in GetLockResults(tx[w], arg[w].name, arg[w].timeout, loc[w].waited) :
       IF AcquireOk(ToInt(r))
       THEN /\ nlock' = LocksAfterGet(nlock, tx[w], arg[w].name, r)
            /\ Goto(w, p, [loc[w] EXCEPT !.waited = 0])
            /\ UNCHANGED <<pend, rlock, nextId, faults>>
            /\ TxFrame
       ELSE /\ FailTx(w, sid, errResult, nlock)
            /\ UNCHANGED faults
  \/ \* GET_LOCK answered NULL
     /\ CanFault /\ Fault
     /\ FailTx(w, sid, errResult, nlock)
  \/ \* the query itself failed
     /\ CanFault /\ Fault
     /\ FailTx(w, sid, "failed to acquire lock: failed to get lock", nlock)

\* tx.ReleaseNamedLock(lockName) followed by the result test.
TxReleaseNamedLock(w, p, sid, errResult, errQuery) ==
  \/ LET r == ReleaseResult(tx[w], arg[w].name)
         nl == LocksAfterRelease(nlock, tx[w], arg[w].name) IN
       IF ToInt(r) = 1
       THEN /\ nlock' = nl
            /\ Goto(w, p, loc[w])
            /\ UNCHANGED <<pend, rlock, nextId, faults>>
            /\ TxFrame
       ELSE /\ FailTx(w, sid, errResult, nl)
            /\ UNCHANGED faults
  \/ /\ CanFault /\ Fault
     /\ FailTx(w, sid, errQuery, nlock)

\* tx.Commit() and the return that follows it: (ok, sid, err) on success.
TxCommit(w, ok, sid, err) ==
  \/ /\ CommitTx(w)
     /\ Finish(w, ok, sid, err)
     /\ okSum' = IF ok /\ op[w] \in DOMAIN okSum
                 THEN [okSum EXCEPT ![op[w]][arg[w].name] = @ + arg[w].qty] ELSE okSum
     /\ UNCHANGED <<cfgVars, history, nextId, op, arg, cur, calls, faults, granted>>
  \/ \* COMMIT failed: nothing is applied
     /\ CanFault /\ Fault
     /\ FailTx(w, sid, "failed to commit transaction", nlock)

\* --------------------------------------------------- AcquireHoldReleaseLock
AcquireHoldReleaseLock_BeginTx(w) ==
  /\ pc[w] = "h_begin"
  /\ BeginTx(w, "h_sid1")

\* One of the three tx.GetCurrentConnectionID() reads: locals after, next step.
HoldConnID(w, l, p) ==
  /\ \/ /\ Goto(w, p, l)
        /\ UNCHANGED <<nlock, pend, rlock, nextId, faults>>
        /\ TxFrame
     \/ /\ CanFault /\ Fault
        /\ FailTx(w, EmptyStr, "failed to get connection id: failed to get connection id", nlock)

AcquireHoldReleaseLock_ConnIDBefore(w) ==
  /\ pc[w] = "h_sid1"
  /\ HoldConnID(w, [loc[w] EXCEPT !.sid = TxConnID(w)], "h_lock")

\* Variant: a failed acquire returns no session id.
GetNamedLockDropsId(w) ==
  /\ pc[w] = "h_lock"
  /\ TxGetNamedLock(w, "h_sid2", EmptyStr, "failed to acquire lock: result 0")

AcquireHoldReleaseLock_GetNamedLock(w) ==
  /\ pc[w] = "h_lock"
  /\ TxGetNamedLock(w, "h_sid2", FormatInt(loc[w].sid), "failed to acquire lock: result 0")

AcquireHoldReleaseLock_ConnIDAfter(w) ==
  /\ pc[w] = "h_sid2"
  /\ HoldConnID(w, [loc[w] EXCEPT !.sid2 = TxConnID(w)], "h_sid3")

AcquireHoldReleaseLock_ConnIDBeforeRelease(w) ==
  /\ pc[w] = "h_sid3"
  /\ HoldConnID(w, [loc[w] EXCEPT !.sid3 = TxConnID(w)], "h_rel")

AcquireHoldReleaseLock_ReleaseNamedLock(w) ==
  /\ pc[w] = "h_rel"
  /\ TxReleaseNamedLock(w, "h_commit", FormatInt(loc[w].sid),
                        "failed to release: result 0", "failed to release: failed to release lock")

AcquireHoldReleaseLock_Commit(w) ==
  /\ pc[w] = "h_commit"
  /\ TxCommit(w, TRUE, FormatInt(loc[w].sid), NoErr)

\* ------------------------------------------------------ guarded record ops
\* Variant: a plain SELECT, which neither waits for nor takes the row lock.
PlainSelect(w, k) == [can |-> TRUE, locks |-> rlock]

\* Variant: the read takes the row lock without waiting for its holder.
ForUpdateNoWait(w, k) == [can |-> TRUE, locks |-> [rlock EXCEPT ![k] = w]]

\* SELECT ... FOR UPDATE on the rows of key k: the read waits while another
\* transaction holds the row lock, then takes it (rows are locked per key).
ForUpdate(w, k) == [can |-> rlock[k] \in {0, w}, locks |-> [rlock EXCEPT ![k] = w]]

\* INSERT / UPDATE of a row of key k waits for and takes the row lock as well.
WriteRow(w, k) == [can |-> rlock[k] \in {0, w}, locks |-> [rlock EXCEPT ![k] = w]]

\* Variant: the delta overwrites the quantity.
QuantityOverwritten(old, add) == add

\* product.Quantity += addQuantity
NewQuantity(old, add) == old + add

\* A step inside the transaction that only changes locals, writes and row locks.
TxStep(w, p, l, pd, rl, ids) ==
  /\ Goto(w, p, l)
  /\ pend' = [pend EXCEPT ![w] = pd]
  /\ rlock' = rl
  /\ nextId' = ids
  /\ UNCHANGED <<nlock, faults>>
  /\ TxFrame

\* A statement of the transaction fails: return the error, roll back.
TxFault(w, err) ==
  /\ CanFault /\ Fault
  /\ FailTx(w, EmptyStr, err, nlock)

\* ------------------------------------------------ AcquireProductReleaseLock
ProductKey(w) == <<"products", arg[w].name>>

\* Variant: the transaction goes to the guarded read without the acquire.
BeginTxSkipsAcquire(w) ==
  /\ pc[w] = "p_begin"
  /\ BeginTx(w, "p_read")

AcquireProductReleaseLock_BeginTx(w) ==
  /\ pc[w] = "p_begin"
  /\ BeginTx(w, "p_lock")

AcquireProductReleaseLock_GetNamedLock(w) ==
  /\ pc[w] = "p_lock"
  /\ TxGetNamedLock(w, "p_read", EmptyStr, "failed to acquire lock: result false")

\* tx.GetProductForUpdate(productCode): the row this transaction sees.
AcquireProductReleaseLock_GetProductForUpdate(w) ==
  /\ pc[w] = "p_read"
  /\ \/ LET f == ForUpdate(w, ProductKey(w))
            q == IF pend[w].prod.kind # "none" THEN pend[w].prod.qty
                 ELSE products[arg[w].name] IN
          /\ f.can
          /\ TxStep(w, "p_write",
                    [loc[w] EXCEPT !.found = (q # Absent),
                                   !.row = [code |-> arg[w].name, quantity |-> q]],
                    pend[w], f.locks, nextId)
     \/ TxFault(w, "failed to get product: failed to get product")

\* product.Quantity += addQuantity; tx.UpdateInventory(product), or
\* tx.InsertInventory(newProduct) when no row was found.
AcquireProductReleaseLock_Write(w) ==
  /\ pc[w] = "p_write"
  /\ LET x == WriteRow(w, ProductKey(w)) IN
     \/ /\ loc[w].found
        /\ x.can
        /\ TxStep(w, "p_rel", loc[w],
                  [pend[w] EXCEPT !.prod = [kind |-> IF @.kind = "insert" THEN "insert" ELSE "update",
                                            qty |-> NewQuantity(loc[w].row.quantity, arg[w].qty)]],
                  x.locks, nextId)
     \/ /\ ~loc[w].found
        /\ x.can
        /\ IF products[arg[w].name] = Absent
           THEN TxStep(w, "p_rel", loc[w],
                       [pend[w] EXCEPT !.prod = [kind |-> "insert", qty |-> arg[w].qty]],
                       x.locks, nextId)
           ELSE \* duplicate primary key
                /\ FailTx(w, EmptyStr, "failed to insert newProduct: failed to insert product", nlock)
                /\ UNCHANGED faults
     \/ /\ loc[w].found
        /\ TxFault(w, "failed to update product: failed to update product")
     \/ /\ ~loc[w].found
        /\ TxFault(w, "failed to insert newProduct: failed to insert product")

AcquireProductReleaseLock_ReleaseNamedLock(w) ==
  /\ pc[w] = "p_rel"
  /\ TxReleaseNamedLock(w, "p_commit", EmptyStr,
                        "failed to release lock: result false",
                        "failed to release lock: failed to release lock")

AcquireProductReleaseLock_Commit(w) ==
  /\ pc[w] = "p_commit"
  /\ TxCommit(w, TRUE, EmptyStr, NoErr)

\* -------------------------------------------------- AcquireOrderReleaseLock
AcquireOrderReleaseLock_BeginTx(w) ==
  /\ pc[w] = "o_begin"
  /\ BeginTx(w, "o_lock")

AcquireOrderReleaseLock_GetNamedLock(w) ==
  /\ pc[w] = "o_lock"
  /\ TxGetNamedLock(w, "o_ins", EmptyStr, "failed to acquire lock: result false")

\* tx.InsertOrder(&db.Order{ID: id, Code: code}) with a fresh uuid as id
AcquireOrderReleaseLock_InsertOrder(w) ==
  /\ pc[w] = "o_ins"
  /\ \/ TxStep(w, "o_list", loc[w], [pend[w] EXCEPT !.oins = @ + 1], rlock, nextId)
     \/ TxFault(w, "failed to insert order: failed to insert order")

\* s.db.ListOrderByCode(code): a query through the pool, while the
\* transaction stays open on its own connection.
AcquireOrderReleaseLock_ListOrderByCode(w) ==
  /\ pc[w] = "o_list" /\ cur[w] # NoConn
  /\ \/ /\ Goto(w, "o_rel", [loc[w] EXCEPT !.row = [count |-> orderRows[arg[w].name]]])
        /\ Putback(w, nlock)
        /\ UNCHANGED <<tx, txEnd, pend, rlock, faults>>
     \/ /\ CanFault /\ Fault
        /\ Finish(w, FALSE, EmptyStr, "failed to list orders: failed to list orders")
        /\ LET cn == PutConn(conn, cur[w])
               nl == LocksAfterPut(conn, nlock, cur[w]) IN
             /\ conn' = PutConn(cn, tx[w])
             /\ nlock' = LocksAfterPut(cn, nl, tx[w])
        /\ cur' = [cur EXCEPT ![w] = NoConn]
        /\ txEnd' = [txEnd EXCEPT ![w] = "rolledback"]
        /\ pend' = [pend EXCEPT ![w] = NoPend]
        /\ rlock' = RowLocksWithout(w)
        /\ tx' = [tx EXCEPT ![w] = NoConn]
        /\ UNCHANGED nextConn
  /\ UNCHANGED <<cfgVars, history, dbVars, nextId, op, arg, calls, obsVars>>

AcquireOrderReleaseLock_ReleaseNamedLock(w) ==
  /\ pc[w] = "o_rel"
  /\ TxReleaseNamedLock(w, "o_commit", EmptyStr,
                        "failed to release lock: result false",
                        "failed to release lock: failed to release lock")

AcquireOrderReleaseLock_Commit(w) ==
  /\ pc[w] = "o_commit"
  /\ TxCommit(w, TRUE, EmptyStr, NoErr)

\* ------------------------------------------------ AcquireProcessReleaseLock
\* The products table of the process variant is only read: code -> id.
ProductIDs == [n \in {"P001"} |-> 1]
ProductID(n) == IF n \in DOMAIN ProductIDs THEN ProductIDs[n] ELSE 0
InventoryKey(w) == <<"product_inventory", arg[w].name>>
OrderKey(w) == <<"orders", arg[w].name>>

AcquireProcessReleaseLock_BeginTx(w) ==
  /\ pc[w] = "q_begin"
  /\ BeginTx(w, "q_lock")

AcquireProcessReleaseLock_GetNamedLock(w) ==
  /\ pc[w] = "q_lock"
  /\ TxGetNamedLock(w, "q_prod", EmptyStr, "failed to acquire lock: result 0")

\* tx.GetProductByCode(productCode), a plain read
AcquireProcessReleaseLock_GetProductByCode(w) ==
  /\ pc[w] = "q_prod"
  /\ \/ LET id == ProductID(arg[w].name) IN
          TxStep(w, IF id = 0 THEN "q_nf_rel" ELSE "q_inv",
                 [loc[w] EXCEPT !.found = (id # 0), !.row = [id |-> id]],
                 pend[w], rlock, nextId)
     \/ TxFault(w, "failed to get product: failed to get product")

\* product == nil: release the lock, ...
AcquireProcessReleaseLock_NotFoundRelease(w) ==
  /\ pc[w] = "q_nf_rel"
  /\ TxReleaseNamedLock(w, "q_nf_commit", EmptyStr,
                        "failed to release lock: result 0",
                        "failed to release lock: failed to release lock")

\* ... commit, and return the error "product not found".
AcquireProcessReleaseLock_NotFoundCommit(w) ==
  /\ pc[w] = "q_nf_commit"
  /\ TxCommit(w, FALSE, EmptyStr, "product not found")

\* The rows of a table as the transaction of w sees them.
SeenInventory(w) == UpsertRows(inventory, pend[w].inv)
SeenOrders(w) == UpsertRows(orders, pend[w].ord)

\* tx.GetInventoryForUpdate(product.ID): some row of the product, if any
AcquireProcessReleaseLock_GetInventoryForUpdate(w) ==
  /\ pc[w] = "q_inv"
  /\ \/ LET f == ForUpdate(w, InventoryKey(w))
            rows == {r \in SeenInventory(w) : r.pid = loc[w].row.id} IN
          /\ f.can
          /\ IF rows = {}
             THEN TxStep(w, "q_invw", [loc[w] EXCEPT !.found = FALSE], pend[w], f.locks, nextId)
             ELSE \E r \in rows :
                    TxStep(w, "q_invw", [loc[w] EXCEPT !.found = TRUE, !.sid2 = r.id, !.sid3 = r.qty],
                           pend[w], f.locks, nextId)
     \/ TxFault(w, "failed to get inventory: failed to get inventory")

\* inventory.Quantity += addQuantity; tx.UpdateInventory(inventory), or
\* tx.InsertInventory(newInventory) when no row was found.
AcquireProcessReleaseLock_WriteInventory(w) ==
  /\ pc[w] = "q_invw"
  /\ LET x == WriteRow(w, InventoryKey(w))
         pid == loc[w].row.id
         l == [loc[w] EXCEPT !.sid2 = 0, !.sid3 = 0] IN
     \/ /\ x.can
        /\ IF loc[w].found
           THEN TxStep(w, "q_ord", l,
                       [pend[w] EXCEPT !.inv = UpsertRows(@, {[id |-> loc[w].sid2, pid |-> pid,
                                                              qty |-> NewQuantity(loc[w].sid3, arg[w].qty)]})],
                       x.locks, nextId)
           ELSE TxStep(w, "q_ord", l,
                       [pend[w] EXCEPT !.inv = @ \cup {[id |-> nextId.inv, pid |-> pid,
                                                        qty |-> arg[w].qty]}],
                       x.locks, [nextId EXCEPT !.inv = @ + 1])
     \/ IF loc[w].found
        THEN TxFault(w, "failed to update inventory: failed to update inventory")
        ELSE TxFault(w, "failed to insert inventory: failed to insert inventory")

\* Variant: the oldest order of the product, whatever its status.
GetOrderAnyStatus(w) ==
  /\ pc[w] = "q_ord"
  /\ \/ LET f == ForUpdate(w, OrderKey(w))
            rows == {r \in SeenOrders(w) : r.pid = loc[w].row.id} IN
          /\ f.can
          /\ IF rows = {}
             THEN TxStep(w, "q_ordw", [loc[w] EXCEPT !.found = FALSE], pend[w], f.locks, nextId)
             ELSE LET r == CHOOSE x \in rows : \A y \in rows : x.id <= y.id IN
                    TxStep(w, "q_ordw", [loc[w] EXCEPT !.found = TRUE, !.sid2 = r.id, !.sid3 = r.qty],
                           pend[w], f.locks, nextId)
     \/ TxFault(w, "failed to get order: failed to get order")

\* tx.GetOrderForUpdate(product.ID): the pending order with the lowest id
AcquireProcessReleaseLock_GetOrderForUpdate(w) ==
  /\ pc[w] = "q_ord"
  /\ \/ LET f == ForUpdate(w, OrderKey(w))
            rows == {r \in SeenOrders(w) : r.pid = loc[w].row.id /\ r.status = "pending"} IN
          /\ f.can
          /\ IF rows = {}
             THEN TxStep(w, "q_ordw", [loc[w] EXCEPT !.found = FALSE], pend[w], f.locks, nextId)
             ELSE LET r == CHOOSE x \in rows : \A y \in rows : x.id <= y.id IN
                    TxStep(w, "q_ordw", [loc[w] EXCEPT !.found = TRUE, !.sid2 = r.id, !.sid3 = r.qty],
                           pend[w], f.locks, nextId)
     \/ TxFault(w, "failed to get order: failed to get order")

\* order.Quantity += addQuantity; order.Status = "processing";
\* tx.UpdateOrder(order), or tx.InsertOrder(newOrder) when none was found.
AcquireProcessReleaseLock_WriteOrder(w) ==
  /\ pc[w] = "q_ordw"
  /\ LET x == WriteRow(w, OrderKey(w))
         pid == loc[w].row.id
         l == [loc[w] EXCEPT !.sid2 = 0, !.sid3 = 0] IN
     \/ /\ x.can
        /\ IF loc[w].found
           THEN TxStep(w, "q_rel", l,
                       [pend[w] EXCEPT !.ord = UpsertRows(@, {[id |-> loc[w].sid2, pid |-> pid,
                                                              qty |-> NewQuantity(loc[w].sid3, arg[w].qty),
                                                              status |-> "processing"]})],
                       x.locks, nextId)
           ELSE TxStep(w, "q_rel", l,
                       [pend[w] EXCEPT !.ord = @ \cup {[id |-> nextId.ord, pid |-> pid,
                                                        qty |-> arg[w].qty, status |-> "pending"]}],
                       x.locks, [nextId EXCEPT !.ord = @ + 1])
     \/ IF loc[w].found
        THEN TxFault(w, "failed to update order: failed to update order")
        ELSE TxFault(w, "failed to insert order: failed to insert order")

AcquireProcessReleaseLock_ReleaseNamedLock(w) ==
  /\ pc[w] = "q_rel"
  /\ TxReleaseNamedLock(w, "q_commit", EmptyStr,
                        "failed to release lock: result 0",
                        "failed to release lock: failed to release lock")

AcquireProcessReleaseLock_Commit(w) ==
  /\ pc[w] = "q_commit"
  /\ TxCommit(w, TRUE, EmptyStr, NoErr)

\* ------------------------------------------------------------ specifications
MenuPlain ==
  {Req("AcquireLock", n, t, 0) : n \in Names, t \in Timeouts}
    \cup {Req("ReleaseLock", n, 0, 0) : n \in Names}
    \cup {Req("IsLockFree", "P001", 0, 0)}

Plain(w) ==
  \/ AcquireLock_ConnID(w)
  \/ AcquireLock_GetNamedLock(w)
  \/ AcquireLock_SaveLockHistory(w)
  \/ ReleaseLock_ConnID(w)
  \/ ReleaseLock_ReleaseNamedLock(w)
  \/ ReleaseLock_SaveLockHistory(w)
  \/ IsLockFree_IsFreeLock(w)

NextPlain == \E w \in Workers : Call(w, MenuPlain) \/ Checkout(w) \/ Plain(w)

SpecPlain == Init /\ [][NextPlain]_vars

InitTx == Init /\ svc = "plain"

\* The lock API as RunNormalTest uses it: acquire, status, release.
MenuLockStatus ==
  {Req("AcquireLock", "P001", 0, 0), Req("ReleaseLock", "P001", 0, 0)}
    \cup {Req("Status", n, 0, 0) : n \in Names}

NextLockStatus ==
  \E w \in Workers :
    \/ Call(w, MenuLockStatus)
    \/ Checkout(w)
    \/ AcquireLock_ConnID(w)
    \/ AcquireLock_GetNamedLock(w)
    \/ AcquireLock_SaveLockHistory(w)
    \/ ReleaseLock_ConnID(w)
    \/ ReleaseLock_ReleaseNamedLock(w)
    \/ ReleaseLock_SaveLockHistory(w)
    \/ GetLockStatus(w)

SpecLockStatus == InitTx /\ [][NextLockStatus]_vars

MenuHold == {Req("Hold", n, t, 0) : n \in Names, t \in Timeouts}

Hold(w) ==
  \/ AcquireHoldReleaseLock_BeginTx(w)
  \/ AcquireHoldReleaseLock_ConnIDBefore(w)
  \/ AcquireHoldReleaseLock_GetNamedLock(w)
  \/ AcquireHoldReleaseLock_ConnIDAfter(w)
  \/ AcquireHoldReleaseLock_ConnIDBeforeRelease(w)
  \/ AcquireHoldReleaseLock_ReleaseNamedLock(w)
  \/ AcquireHoldReleaseLock_Commit(w)

NextHold == \E w \in Workers : Call(w, MenuHold) \/ Hold(w)

SpecHold == InitTx /\ [][NextHold]_vars

\* A handler answers a request.
Handle ==
  /\ \E r \in HandlerInputs :
       /\ ValidInput(r)
       /\ hreq' = r
       /\ hresp' = HandlerResponse(r)
  /\ UNCHANGED <<svc, up, poolVars, nlock, history, dbVars, nextId, tx, txEnd, pend, rlock,
                 pc, op, arg, cur, loc, ret, calls, faults, obsVars>>

NextHandler == Handle

SpecHandler == InitTx /\ [][NextHandler]_vars

\* One second passes for a GET_LOCK with a positive timeout that waits for a
\* name another session holds.
Tick(w) ==
  /\ op[w] \in CompositeOps /\ pc[w] \in {"h_lock", "p_lock", "o_lock", "q_lock"}
  /\ ~CanGrant(tx[w], arg[w].name)
  /\ arg[w].timeout > 0 /\ loc[w].waited < arg[w].timeout
  /\ loc' = [loc EXCEPT ![w].waited = @ + 1]
  /\ UNCHANGED <<cfgVars, poolVars, nlock, history, dbVars, nextId, tx, txEnd, pend, rlock,
                 pc, op, arg, cur, ret, calls, faults, obsVars>>

MenuWait == {Req("Hold", "P001", t, 0) : t \in Timeouts \cup {MaxWait}}

NextWait == \E w \in Workers : Call(w, MenuWait) \/ Hold(w) \/ Tick(w)

SpecWait == InitTx /\ [][NextWait]_vars

\* A call that is under way keeps running: each step it can take is taken
\* (its goroutine is scheduled); clients need not issue further calls.
\* RunHoldReleaseLockTest: every client invokes AcquireHoldReleaseLock on the
\* one test lock with timeout -1, and no capability call fails.
MenuHarness == {Req("Hold", "P001", -1, 0)}

Client(w) == (Call(w, MenuHarness) \/ Hold(w)) /\ faults' = faults

NextHarness == \E w \in Workers : Client(w)

\* RunParallel starts every client in its goroutine, and each is scheduled.
FairHarness == \A w \in Workers : WF_vars(Client(w))

SpecHarness == InitTx /\ [][NextHarness]_vars /\ FairHarness

FairHold == \A w \in Workers : WF_vars(Hold(w))

SpecHoldFair == SpecHold /\ FairHold

Product(w) ==
  \/ AcquireProductReleaseLock_BeginTx(w)
  \/ AcquireProductReleaseLock_GetNamedLock(w)
  \/ AcquireProductReleaseLock_GetProductForUpdate(w)
  \/ AcquireProductReleaseLock_Write(w)
  \/ AcquireProductReleaseLock_ReleaseNamedLock(w)
  \/ AcquireProductReleaseLock_Commit(w)

Order(w) ==
  \/ AcquireOrderReleaseLock_BeginTx(w)
  \/ AcquireOrderReleaseLock_GetNamedLock(w)
  \/ AcquireOrderReleaseLock_InsertOrder(w)
  \/ AcquireOrderReleaseLock_ListOrderByCode(w)
  \/ AcquireOrderReleaseLock_ReleaseNamedLock(w)
  \/ AcquireOrderReleaseLock_Commit(w)

\* The connections the pool has open.
OpenConns(cn) == {c \in Conns : cn[c] \in {"idle", "busy"}}

\* Composites with timeout -1 on one name over a pool that opens at most
\* PoolSize connections: a step that needs one more waits. No capability call
\* fails.
MenuBounded == {Req("Order", "P001", -1, 0), Req("Hold", "P001", -1, 0)}

Bounded(w) ==
  /\ \/ Call(w, MenuBounded)
     \/ Checkout(w)
     \/ Order(w)
     \/ Hold(w)
  /\ faults' = faults
  /\ Cardinality(OpenConns(conn')) <= PoolSize

NextBounded == \E w \in Workers : Bounded(w)

FairBounded == \A w \in Workers : WF_vars(Bounded(w))

SpecBounded == InitTx /\ [][NextBounded]_vars /\ FairBounded

\* AcquireLock and the owner query on one name while orders are placed on
\* another: three connections can be out of the pool at once.
MenuStatus ==
  {Req("AcquireLock", "P999", -1, 0), Req("GetLockOwner", "P999", 0, 0),
   Req("Order", "P001", -1, 0)}

NextStatus ==
  \E w \in Workers :
    \/ Call(w, MenuStatus)
    \/ Checkout(w)
    \/ AcquireLock_ConnID(w)
    \/ AcquireLock_GetNamedLock(w)
    \/ AcquireLock_SaveLockHistory(w)
    \/ GetLockOwner_GetLockOwner(w)
    \/ Order(w)

SpecStatus == InitTx /\ [][NextStatus]_vars

\* database.Close(): every connection the pool has opened is closed.
CloseAll(cn) == [c \in Conns |-> IF cn[c] = "new" THEN "new" ELSE "closed"]

\* Variant: the sessions end but the server keeps their named locks.
LocksKeptAtShutdown(cn, nl) == nl

\* The server frees every named lock of a session that has ended.
LocksOfOpen(cn, nl) ==
  [n \in Names |-> [c \in Conns |-> IF cn[c] = "closed" THEN 0 ELSE nl[n][c]]]

\* main after the signal: e.Shutdown(ctx), then database.Close(); when the
\* handlers do not return within the grace period log.Fatalf ends the process
\* and its connections with it. Either way every session ends, open
\* transactions are rolled back by the server, and no call moves any more.
Shutdown ==
  /\ up /\ up' = FALSE
  /\ conn' = CloseAll(conn)
  /\ nlock' = LocksOfOpen(CloseAll(conn), nlock)
  /\ txEnd' = [w \in Workers |-> IF tx[w] # NoConn THEN "rolledback" ELSE txEnd[w]]
  /\ tx' = [w \in Workers |-> NoConn]
  /\ cur' = [w \in Workers |-> NoConn]
  /\ pend' = [w \in Workers |-> NoPend]
  /\ rlock' = [k \in RowKeys |-> 0]
  /\ UNCHANGED <<svc, hreq, hresp, nextConn, history, dbVars, nextId, pc, op, arg, loc, ret,
                 calls, faults, obsVars>>

NextShutdown ==
  \/ up /\ NextStatus
  \/ Shutdown

SpecShutdown == InitTx /\ [][NextShutdown]_vars


Process(w) ==
  \/ AcquireProcessReleaseLock_BeginTx(w)
  \/ AcquireProcessReleaseLock_GetNamedLock(w)
  \/ AcquireProcessReleaseLock_GetProductByCode(w)
  \/ AcquireProcessReleaseLock_NotFoundRelease(w)
  \/ AcquireProcessReleaseLock_NotFoundCommit(w)
  \/ AcquireProcessReleaseLock_GetInventoryForUpdate(w)
  \/ AcquireProcessReleaseLock_WriteInventory(w)
  \/ AcquireProcessReleaseLock_GetOrderForUpdate(w)
  \/ AcquireProcessReleaseLock_WriteOrder(w)
  \/ AcquireProcessReleaseLock_ReleaseNamedLock(w)
  \/ AcquireProcessReleaseLock_Commit(w)

MenuGuarded ==
  {Req("Product", "P001", t, q) : t \in Timeouts, q \in Deltas}
    \cup {Req("Order", "P001", t, 0) : t \in Timeouts}
    \cup {Req("Process", n, -1, 3) : n \in Names}
    \cup {Req("IsLockFree", "P001", 0, 0)}

NextGuarded ==
  \E w \in Workers :
    \/ Call(w, MenuGuarded)
    \/ Checkout(w)
    \/ IsLockFree_IsFreeLock(w)
    \/ Product(w)
    \/ Order(w)
    \/ Process(w)

SpecGuarded == InitTx /\ [][NextGuarded]_vars

MenuAll ==
  {Req("AcquireLock", "P001", t, 0) : t \in Timeouts}
    \cup {Req("ReleaseLock", "P001", 0, 0), Req("IsLockFree", "P001", 0, 0)}
    \cup {Req("Hold", "P001", -1, 0), Req("Product", "P001", -1, 5), Req("Order", "P001", -1, 0)}
    \cup {Req("Process", n, -1, 3) : n \in Names}

Next ==
  \E w \in Workers :
    \/ Call(w, MenuAll)
    \/ Checkout(w)
    \/ Plain(w)
    \/ Hold(w)
    \/ Product(w)
    \/ Order(w)
    \/ Process(w)

Spec == Init /\ [][Next]_vars

TypeOK ==
  /\ svc \in SvcVariants
  /\ up \in BOOLEAN
  /\ conn \in [Conns -> {"new", "idle", "busy", "closed"}]
  /\ nextConn \in 2..(MaxConns + 1)
  /\ \A n \in Names : \A c \in Conns : nlock[n][c] \in 0..MaxCalls
  /\ faults \in 0..MaxFaults

\* ------------------------------------------------------------------ claims
Returns(w) == pc[w] # "done" /\ pc'[w] = "done"
LockPcs == {"al_lock", "h_lock", "p_lock", "o_lock", "q_lock"}
GuardedOps == {"Product", "Order", "Process"}
\* The positions reached once RELEASE_LOCK has returned 1.
CommitPcs == {"p_commit", "o_commit", "q_commit"}

C2_OneCallerGranted ==
  \A v, w \in Workers :
    ( /\ v # w
      /\ op[v] = "AcquireLock" /\ op[w] = "AcquireLock"
      /\ arg[v].name = arg[w].name
      /\ arg[v].timeout = -1 /\ arg[w].timeout = -1
      /\ pc[v] = "done" /\ pc[w] = "done"
      /\ ret[v].ok /\ ret[w].ok )
    => granted[arg[v].name] < 2

\* C3: when AcquireHoldReleaseLock returns after its three session id reads,
\* the ids read before the acquire, after it and before the release are equal,
\* they are the id of the session of the transaction, and the id returned is
\* their decimal form.
C3_SessionIdStable ==
  [][\A w \in Workers :
       (op[w] = "Hold" /\ pc[w] \in {"h_rel", "h_commit"} /\ Returns(w))
       => /\ loc[w].sid = loc[w].sid2
          /\ loc[w].sid2 = loc[w].sid3
          /\ loc[w].sid = tx[w]
          /\ ret'[w].sid = FormatInt(loc[w].sid3)]_vars

\* C3 witness: a hold returned success and the id of session 2.
C3_Witness ==
  \E w \in Workers :
    /\ op[w] = "Hold" /\ pc[w] = "done" /\ ret[w].ok
    /\ ret[w].sid = <<"2">> /\ txEnd[w] = "committed"

\* C4: a composite invocation runs every database operation on the session
\* of its transaction: it never has a query out on another connection.
C4_SingleSession ==
  \A w \in Workers :
    (op[w] \in CompositeOps /\ cur[w] # NoConn) => cur[w] = tx[w]

\* C5: a step that writes a guarded record or takes a row lock for a guarded
\* read is taken by an invocation whose transaction is open and whose session
\* holds, at that moment, the named lock of the code it works on.
C5_GuardedUnderLock ==
  [][\A w \in Workers :
       ( \/ (pend'[w] # pend[w] /\ pend'[w] # NoPend)
         \/ \E k \in RowKeys : rlock'[k] = w /\ rlock[k] # w )
       => /\ op[w] \in GuardedOps
          /\ txEnd[w] = "open"
          /\ Holds(tx[w], arg[w].name)]_vars

\* C5 witness: an uncommitted insert of P001 made under the lock of P001.
C5_Witness ==
  \E w \in Workers :
    /\ op[w] = "Product" /\ pc[w] = "p_rel"
    /\ pend[w].prod.kind = "insert"
    /\ rlock[<<"products", "P001">>] = w
    /\ Holds(tx[w], "P001")

\* The committed tables after the step are the ones before it with the
\* writes of the transaction of w applied.
WritesPersisted(w) ==
  /\ pend[w] # NoPend
  /\ products' = IF pend[w].prod.kind = "none" THEN products
                 ELSE [products EXCEPT ![arg[w].name] = pend[w].prod.qty]
  /\ inventory' = UpsertRows(inventory, pend[w].inv)
  /\ orders' = UpsertRows(orders, pend[w].ord)
  /\ orderRows' = [orderRows EXCEPT ![arg[w].name] = @ + pend[w].oins]

\* The step returns an error, leaves the committed tables alone, and the
\* transaction, if one was begun, ends rolled back.
FailsRolledBack(w) ==
  /\ ret'[w].err # NoErr
  /\ UNCHANGED dbVars
  /\ txEnd'[w] = IF txEnd[w] = "none" THEN "none" ELSE "rolledback"

C7_QuantityAdds ==
  [][\A w \in Workers :
       (op[w] = "Product" /\ Returns(w) /\ ret'[w].ok)
       => LET n == arg[w].name
              old == IF products[n] = Absent THEN 0 ELSE products[n] IN
            /\ products'[n] = old + arg[w].qty
            /\ insCnt'[n] = 1]_vars

\* C7 witness: two calls one after the other on P001, 5 then 3: quantity 8.
C7_Witness ==
  /\ op[1] = "Product" /\ pc[1] = "done" /\ ret[1].ok /\ arg[1].qty = 3
  /\ op[2] = "none"
  /\ products["P001"] = 8 /\ insCnt["P001"] = 1

\* C8: whatever the interleaving, the persisted quantity of a code is the
\* initial quantity (0 for an absent record, 10 for the inventory of P001)
\* plus the deltas of the calls that returned success, and the record of a
\* code is inserted at most once.
C8_NoLostUpdate ==
  /\ \A n \in Names :
       /\ insCnt[n] <= 1
       /\ products[n] = IF insCnt[n] = 0 THEN Absent ELSE okSum["Product"][n]
  /\ \A r \in inventory : r.qty = 10 + okSum["Process"]["P001"]
  /\ Cardinality(inventory) = 1

\* C8 witness: two concurrent successful product calls on P001 and quantity 8.
C8_Witness ==
  /\ op[1] = "Product" /\ pc[1] = "done" /\ ret[1].ok
  /\ op[2] = "Product" /\ pc[2] = "done" /\ ret[2].ok
  /\ arg[1].qty # arg[2].qty
  /\ products["P001"] = 8

\* C9: ReleaseLock on a session that does not hold the name returns false
\* without an error and leaves the holders of the name as they were.
C9_NotReleasedNoError ==
  [][\A w \in Workers :
       ( /\ op[w] = "ReleaseLock" /\ pc[w] = "rl_rel" /\ cur[w] # NoConn
         /\ ~Holds(cur[w], arg[w].name)
         /\ Returns(w) /\ faults' = faults )
       => /\ ~ret'[w].ok
          /\ ret'[w].err = NoErr
          /\ HoldersIn(nlock', arg[w].name) = Holders(arg[w].name)]_vars

\* C10: AcquireLock that does not obtain a name held by another session
\* returns false without an error; it returns an error only when a
\* capability call failed.
C10_NotAcquiredNoError ==
  [][\A w \in Workers :
       (op[w] = "AcquireLock" /\ Returns(w))
       => /\ (ret'[w].err # NoErr => faults' > faults)
          /\ ( ( /\ pc[w] = "al_lock" /\ cur[w] # NoConn
                 /\ ~CanGrant(cur[w], arg[w].name) /\ faults' = faults )
               => (~ret'[w].ok /\ ret'[w].err = NoErr) )]_vars

\* An AcquireLock whose GET_LOCK is about to run on a session that already
\* holds the name.
SecondAcquire(w) ==
  /\ op[w] = "AcquireLock" /\ pc[w] = "al_lock" /\ cur[w] # NoConn
  /\ Holds(cur[w], arg[w].name)

\* C11: GET_LOCK on a session that already holds the name is answered 1 at
\* once for every timeout, so an AcquireLock that runs it goes on to return
\* acquired = true, and the session then holds the name once more (unless the
\* pool closes the connection when it comes back).
C11_ReentrantAcquire ==
  /\ [](\A w \in Workers : SecondAcquire(w) =>
          \A t \in Timeouts \cup {MaxWait} :
            GetLockResults(cur[w], arg[w].name, t, 0) = {NullInt(TRUE, 1)})
  /\ [][\A w \in Workers :
          /\ (SecondAcquire(w) /\ pc'[w] # pc[w] /\ faults' = faults)
             => /\ pc'[w] = "al_hist"
                /\ nlock'[arg[w].name][cur[w]] \in {nlock[arg[w].name][cur[w]] + 1, 0}
          /\ (op[w] = "AcquireLock" /\ pc[w] = "al_hist" /\ Returns(w))
             => (ret'[w].ok /\ ret'[w].err = NoErr)]_vars

\* C11 witness: two AcquireLock calls were granted P001 on the same session,
\* which holds it twice.
C11_Witness ==
  /\ op[1] = "AcquireLock" /\ pc[1] = "done" /\ ret[1].ok
  /\ op[2] = "AcquireLock" /\ pc[2] = "done" /\ ret[2].ok
  /\ \E c \in Conns : nlock["P001"][c] = 2

\* The positions of the guarded work, between the acquire and the release.
WorkPcs == {"p_read", "p_write", "o_ins", "o_list", "q_prod", "q_inv", "q_invw", "q_ord", "q_ordw"}

\* C12: a guarded composite that fails in its guarded work leaves the named
\* lock on the connection of its transaction, which loses it exactly when the
\* pool closes that connection; closing a connection that holds a name leaves
\* the name without holder, and IsLockFree then answers true (it answers true
\* exactly when no session holds the name).
C12_FreeOnceTornDown ==
  [][/\ \A w \in Workers :
          (op[w] \in GuardedOps /\ pc[w] \in WorkPcs /\ Returns(w))
          => LET c == tx[w]
                 n == arg[w].name IN
               /\ ret'[w].err # NoErr
               /\ conn'[c] \in {"idle", "closed"}
               /\ nlock'[n][c] = IF conn'[c] = "closed" THEN 0 ELSE nlock[n][c]
     /\ \A c \in Conns, n \in Names :
          (nlock[n][c] > 0 /\ conn[c] # "closed" /\ conn'[c] = "closed")
          => HoldersIn(nlock', n) = {}
     /\ \A w \in Workers :
          (op[w] = "IsLockFree" /\ Returns(w) /\ faults' = faults)
          => (ret'[w].ok <=> Holders(arg[w].name) = {})]_vars

\* C12 witness: a guarded call on P001 failed in its guarded work and was
\* rolled back, the pool closed a connection, nobody holds P001, and an
\* IsLockFree call that followed answered true.
C12_Witness ==
  \E v, w \in Workers :
    /\ v # w
    /\ op[v] \in GuardedOps /\ pc[v] = "done" /\ txEnd[v] = "rolledback"
    /\ ret[v].err \in {"failed to get product: failed to get product",
                       "failed to update product: failed to update product",
                       "failed to insert newProduct: failed to insert product"}
    /\ \E c \in Conns : conn[c] = "closed"
    /\ Holders("P001") = {}
    /\ op[w] = "IsLockFree" /\ pc[w] = "done" /\ ret[w].ok /\ ret[w].err = NoErr

\* C13: once AcquireHoldReleaseLock returned the error of a release that
\* failed after its acquire succeeded, its transaction is rolled back and the
\* name eventually has no holder.
C13_NotHeldForever ==
  \A w \in Workers :
    ( /\ op[w] = "Hold" /\ pc[w] = "done"
      /\ ret[w].err = "failed to release: failed to release lock" )
    ~> (txEnd[w] = "rolledback" /\ Holders(arg[w].name) = {})

\* The positions a composite is at once its GET_LOCK has returned 1.
AcquiredPcs ==
  {"h_sid2", "h_sid3", "h_rel", "h_commit", "p_rel", "o_rel", "q_rel", "q_nf_rel", "q_nf_commit"}
    \cup WorkPcs \cup CommitPcs

NeverAcquiredMsgs ==
  {"failed to begin transaction: failed to begin transaction",
   "failed to get connection id: failed to get connection id",
   "failed to acquire lock: failed to get lock",
   "failed to acquire lock: result 0",
   "failed to acquire lock: result false"}

\* C15: a composite returns success without error, or an error whose message
\* tells whether the lock had been acquired: the messages returned before the
\* acquire succeeded and the messages returned after it are disjoint.
C15_FailureTellsPhase ==
  [][\A w \in Workers :
       (op[w] \in CompositeOps /\ Returns(w))
       => IF ret'[w].err = NoErr THEN ret'[w].ok
          ELSE (pc[w] \in AcquiredPcs <=> ret'[w].err \notin NeverAcquiredMsgs)]_vars

\* C16: when the GET_LOCK step of a composite does not obtain the lock (the
\* depth its session holds does not grow), the call returns at once with an
\* error, its transaction ends rolled back with the tables untouched, and no
\* RELEASE_LOCK runs: the call does not pass by a release and no session
\* holds the name less than before, unless the pool closed it.
C16_NotAcquiredRollsBack ==
  [][\A w \in Workers :
       ( /\ op[w] \in CompositeOps /\ pc[w] \in LockPcs /\ pc'[w] # pc[w]
         /\ nlock'[arg[w].name][tx[w]] <= nlock[arg[w].name][tx[w]] )
       => /\ Returns(w)
          /\ ~ret'[w].ok /\ ret'[w].err # NoErr
          /\ txEnd'[w] = "rolledback"
          /\ UNCHANGED dbVars
          /\ \A c \in Conns :
               nlock'[arg[w].name][c] =
                 IF conn'[c] = "closed" THEN 0 ELSE nlock[arg[w].name][c]]_vars

\* C16 witness: a composite with timeout 0 was refused P001, which the
\* transaction of another composite holds, and ended rolled back.
C16_Witness ==
  \E v, w \in Workers :
    /\ v # w
    /\ op[v] \in CompositeOps /\ tx[v] # NoConn /\ Holds(tx[v], "P001")
    /\ op[w] \in CompositeOps /\ pc[w] = "done" /\ arg[w].name = "P001"
    /\ arg[w].timeout = 0
    /\ ret[w].err \in {"failed to acquire lock: result 0", "failed to acquire lock: result false"}
    /\ txEnd[w] = "rolledback"

\* The connection on which the GET_LOCK of w runs.
LockConn(w) == IF op[w] = "AcquireLock" THEN cur[w] ELSE tx[w]

\* C17: a call whose GET_LOCK is refused the name (another session holds it
\* and the timeout is not negative) returns not acquired without an error,
\* and then has no transaction open, no connection out of the pool, and its
\* session holds no more of the name than before.
C17_RefusedWithoutError ==
  [][\A w \in Workers :
       ( /\ op[w] \in {"AcquireLock"} \cup CompositeOps /\ pc[w] \in LockPcs
         /\ LockConn(w) # NoConn /\ ~CanGrant(LockConn(w), arg[w].name)
         /\ pc'[w] # pc[w] /\ faults' = faults )
       => /\ Returns(w)
          /\ ~ret'[w].ok /\ ret'[w].err = NoErr
          /\ tx'[w] = NoConn /\ cur'[w] = NoConn /\ txEnd'[w] # "open"
          /\ conn'[LockConn(w)] \in {"idle", "closed"}
          /\ nlock'[arg[w].name][LockConn(w)] = 0]_vars

\* A composite whose GET_LOCK finds the name held by another session.
Contended(w) ==
  /\ op[w] \in CompositeOps /\ pc[w] \in LockPcs
  /\ ~CanGrant(tx[w], arg[w].name)

\* C18: while another session holds the name, GET_LOCK with timeout 0 answers
\* 0 at once; with a negative timeout it answers nothing, so the call leaves
\* the step only by a capability fault; with a positive timeout N it answers
\* nothing during the first N seconds and 0 after them, and never waits
\* longer. A call that leaves the step while the name is contended, without
\* a fault, is refused.
C18_TimeoutMeaning ==
  /\ [](\A w \in Workers : Contended(w) =>
          LET t == arg[w].timeout
              r == GetLockResults(tx[w], arg[w].name, t, loc[w].waited) IN
            /\ t = 0 => r = {NullInt(TRUE, 0)}
            /\ t < 0 => r = {}
            /\ t > 0 => /\ loc[w].waited <= t
                        /\ r = IF loc[w].waited = t THEN {NullInt(TRUE, 0)} ELSE {})
  /\ [][\A w \in Workers :
          (Contended(w) /\ pc'[w] # pc[w] /\ faults' = faults)
          => /\ arg[w].timeout >= 0
             /\ loc[w].waited = arg[w].timeout
             /\ Returns(w) /\ ~ret'[w].ok
             /\ ret'[w].err = "failed to acquire lock: result 0"]_vars

\* C18 witness: a hold with the positive timeout was refused P001 while the
\* transaction of another hold, which asked with a negative timeout, holds it.
C18_Witness ==
  \E v, w \in Workers :
    /\ v # w
    /\ op[v] = "Hold" /\ arg[v].timeout < 0 /\ tx[v] # NoConn /\ Holds(tx[v], "P001")
    /\ op[w] = "Hold" /\ arg[w].timeout = MaxWait /\ pc[w] = "done"
    /\ ret[w].err = "failed to acquire lock: result 0"

\* C19: every response a handler writes for a request one of whose steps
\* failed has status 200 and a body with success = false and a message.
C19_ErrorsAnswered200 ==
  (hresp # NoResp /\ StepRuns(hreq))
  => /\ hresp.status = 200
     /\ hresp.hasSuccess /\ ~hresp.success
     /\ hresp.message

\* C20: IsLockFree answers true for the capability results 1 and NULL and
\* false for 0; a call that meets no fault answers true exactly when no
\* session holds the name, and a call returns an error only when the query
\* failed, in which case it answers false.
C20_IsLockFreeAnswers ==
  /\ [](/\ IsLockFreeAnswer(NullInt(TRUE, 1))
        /\ IsLockFreeAnswer(NullInt(FALSE, 0))
        /\ ~IsLockFreeAnswer(NullInt(TRUE, 0)))
  /\ [][\A w \in Workers :
          (op[w] = "IsLockFree" /\ Returns(w))
          => \/ /\ faults' = faults /\ ret'[w].err = NoErr
                /\ ret'[w].ok = IsLockFreeAnswer(IsFreeResult(arg[w].name))
                /\ ret'[w].ok <=> Holders(arg[w].name) = {}
             \/ /\ faults' > faults
                /\ \/ ret'[w].err = NoErr /\ ret'[w].ok
                   \/ ret'[w].err # NoErr /\ ~ret'[w].ok]_vars

\* C20 witness: IsLockFree answered false without error while a session
\* holds P001, granted by an AcquireLock.
C20_Witness ==
  \E v, w \in Workers :
    /\ op[v] = "AcquireLock" /\ pc[v] = "done" /\ ret[v].ok
    /\ op[w] = "IsLockFree" /\ pc[w] = "done" /\ ~ret[w].ok /\ ret[w].err = NoErr
    /\ Holders("P001") # {}

\* C21: a GetLockOwner call is a pure read: its step leaves every session's
\* hold on every lock name, the guarded records and the lock history as they
\* were, it is never made to wait by a holder, and without a fault it returns
\* the holder's session id exactly when some session holds the name.
C21_OwnerQueryPure ==
  [][\A w \in Workers :
       (op[w] = "GetLockOwner" /\ Returns(w))
       => /\ nlock' = nlock
          /\ history' = history
          /\ UNCHANGED dbVars
          /\ faults' = faults
             => /\ ret'[w].err = NoErr
                /\ ret'[w].ok <=> Holders(arg[w].name) # {}
                /\ ret'[w].ok => \E c \in Holders(arg[w].name) : ret'[w].sid = FormatInt(c)
                /\ ~ret'[w].ok => ret'[w].sid = EmptyStr]_vars

\* C22: the step of AcquireLock and of ReleaseLock that writes the lock
\* history returns the same result and leaves the same lock ownership whether
\* the write succeeds or fails: Acquired with the session id, or Released,
\* with no error, and no hold changed other than by the pool.
C22_HistoryFailureIgnored ==
  [][\A w \in Workers :
       /\ (pc[w] = "al_hist" /\ pc'[w] # "al_hist")
          => /\ pc'[w] = "done"
             /\ ret'[w] = [ok |-> TRUE, sid |-> FormatInt(loc[w].sid), err |-> NoErr]
             /\ nlock' = LocksAfterPut(conn, nlock, cur[w])
             /\ history' = history <=> faults' > faults
       /\ (pc[w] = "rl_hist" /\ pc'[w] # "rl_hist")
          => /\ pc'[w] = "done"
             /\ ret'[w] = [ok |-> TRUE, sid |-> EmptyStr, err |-> NoErr]
             /\ nlock' = LocksAfterPut(conn, nlock, cur[w])
             /\ faults' > faults => history' = history]_vars

\* C22 witness: an AcquireLock returned Acquired with its session id although
\* no history entry was written for it, the session holding the name.
C22_Witness ==
  \E w \in Workers :
    /\ op[w] = "AcquireLock" /\ pc[w] = "done" /\ ret[w].ok /\ ret[w].err = NoErr
    /\ faults = 1
    /\ \A i \in DOMAIN history : history[i].sid # ret[w].sid
    /\ \E c \in Holders(arg[w].name) : ret[w].sid = FormatInt(c)

\* The open 'acquired' entries of a name and session, by position.
OpenEntries(h, n, sid) ==
  {i \in DOMAIN h : h[i].name = n /\ h[i].sid = sid /\ h[i].status = "acquired"}

\* C23: the lock history is append-only: an entry is added only by an
\* AcquireLock whose acquire succeeded, a successful ReleaseLock turns to
\* 'released' only the most recent open 'acquired' entry of its name and
\* session, and no other entry is ever changed or removed.
C23_HistoryAppendOnly ==
  [][history' # history
     => \E w \in Workers :
          \/ /\ pc[w] = "al_hist" /\ pc'[w] = "done" /\ ret'[w].ok
             /\ history' = Append(history, [name |-> arg[w].name, sid |-> ret'[w].sid,
                                             status |-> "acquired"])
          \/ /\ pc[w] = "rl_hist" /\ pc'[w] = "done" /\ ret'[w].ok
             /\ Len(history') = Len(history)
             /\ LET open == OpenEntries(history, arg[w].name, FormatInt(loc[w].sid))
                    last == CHOOSE i \in open : \A j \in open : j <= i
                IN /\ open # {}
                   /\ history'[last] = [history[last] EXCEPT !.status = "released"]
                   /\ \A i \in DOMAIN history : i # last => history'[i] = history[i]]_vars

\* C24: once AcquireHoldReleaseLock has acquired the lock the hold cannot be
\* cut short: whatever happens, the call goes on through the hold to the
\* release on the acquiring session, and never returns before attempting it.
C24_HoldNotCancelled ==
  [][\A w \in Workers :
       /\ (op[w] = "Hold" /\ pc[w] = "h_sid2" /\ pc'[w] # pc[w]) => pc'[w] = "h_sid3"
       /\ (op[w] = "Hold" /\ pc[w] = "h_sid3" /\ pc'[w] # pc[w])
          => pc'[w] = "h_rel" /\ tx'[w] = loc[w].sid]_vars

\* C25: once the server has shut down every database session is closed and
\* every lock name is free, and the shutdown step itself leaves no session
\* holding a name.
C25_ShutdownFreesLocks ==
  /\ [](~up => /\ \A c \in Conns : conn[c] \in {"new", "closed"}
               /\ \A n \in Names : Holders(n) = {})
  /\ [][(up /\ ~up') => \A n \in Names : \A c \in Conns : nlock'[n][c] = 0]_vars

\* C25 witness: the server is down after a single call, an AcquireLock that
\* was granted the name on the pooled session, and the name is free.
C25_Witness ==
  /\ ~up /\ calls = 1
  /\ \E w \in Workers :
       /\ op[w] = "AcquireLock" /\ pc[w] = "done" /\ ret[w].ok
       /\ Holders(arg[w].name) = {}
       /\ \E c \in Conns : ret[w].sid = FormatInt(c) /\ conn[c] = "closed"

\* C26: when the clients of the harness invoke AcquireHoldReleaseLock on one
\* name with timeout -1 and no capability call fails, every invocation
\* eventually returns success with its transaction committed, and in the end
\* every client has returned and the name is free.
C26_AllClientsComplete ==
  /\ \A w \in Workers :
       (op[w] = "Hold" /\ pc[w] # "done")
       ~> (pc[w] = "done" /\ ret[w].ok /\ ret[w].err = NoErr /\ txEnd[w] = "committed")
  /\ <>[](/\ calls = MaxCalls
          /\ \A w \in Workers : pc[w] \in {"idle", "done"}
          /\ Holders("P001") = {})

\* C26 witness: every invocation has been made, both clients have returned
\* success, and they held the name on two different sessions.
C26_Witness ==
  /\ calls = MaxCalls
  /\ \A w \in Workers : op[w] = "Hold" /\ pc[w] = "done" /\ ret[w].ok
  /\ ret[1].sid # ret[2].sid
  /\ Holders("P001") = {}

\* What the operations return on contention: NotAcquired and NotReleased.
ContentionErrs ==
  {NoErr, AcquireLockContended("strict").err, ReleaseLockNotHeld("strict").err,
   "failed to acquire lock: result 0", "failed to release: result 0"}

\* C27: whenever the acquire, the release, the session-id query or a guarded
\* read or write of a call fails, a NULL acquire or release result included,
\* the call returns an error that is none of the contention outcomes, and its
\* open transaction is rolled back.
C27_FaultIsDistinctError ==
  [][\A w \in Workers :
       (faults' > faults /\ pc'[w] # pc[w] /\ pc[w] \notin {"al_hist", "rl_hist", "if_q", "go_q"})
       => /\ pc'[w] = "done"
          /\ ~ret'[w].ok
          /\ ret'[w].err \notin ContentionErrs
          /\ txEnd[w] = "open" => txEnd'[w] = "rolledback"]_vars

\* The step of a composite that each position is about to take: 0 begin (and
\* the session-id read before the acquire), 1 acquire, 2 guarded work or
\* hold, 3 release, 4 commit, 5 returned.
PhaseOf(p) ==
  CASE p \in {"h_begin", "p_begin", "o_begin", "q_begin", "h_sid1"} -> 0
    [] p \in {"h_lock", "p_lock", "o_lock", "q_lock"} -> 1
    [] p \in WorkPcs \cup {"h_sid2", "h_sid3"} -> 2
    [] p \in {"h_rel", "p_rel", "o_rel", "q_rel", "q_nf_rel"} -> 3
    [] p \in {"h_commit", "p_commit", "o_commit", "q_commit", "q_nf_commit"} -> 4
    [] OTHER -> 5

\* C28: the steps of a composite occur only in the order begin, acquire,
\* guarded work or hold, release, commit: a call starts at begin, the work
\* starts only after the acquire was granted, the release is requested only
\* after the work, the commit is issued only after the release returned 1,
\* success is returned only by the commit, and a refused acquire ends the
\* call with no later step.
C28_StepsInOrder ==
  [][\A w \in Workers :
       /\ (op'[w] \in CompositeOps /\ pc[w] \in {"idle", "done"} /\ pc'[w] # pc[w])
          => PhaseOf(pc'[w]) = 0
       /\ (op[w] \in CompositeOps /\ pc[w] \notin {"idle", "done"} /\ pc'[w] # pc[w])
          => /\ PhaseOf(pc'[w]) \in {PhaseOf(pc[w]), PhaseOf(pc[w]) + 1, 5}
             /\ (PhaseOf(pc[w]) = 1 /\ PhaseOf(pc'[w]) = 2)
                => nlock'[arg[w].name][tx[w]] = nlock[arg[w].name][tx[w]] + 1
             /\ (PhaseOf(pc[w]) = 1
                 /\ nlock'[arg[w].name][tx[w]] <= nlock[arg[w].name][tx[w]])
                => pc'[w] = "done" /\ ~ret'[w].ok
             /\ PhaseOf(pc'[w]) = 3 => PhaseOf(pc[w]) = 2
             /\ PhaseOf(pc'[w]) = 4
                => /\ PhaseOf(pc[w]) = 3
                   /\ ReleaseResult(tx[w], arg[w].name) = NullInt(TRUE, 1)
                   /\ faults' = faults
             /\ (pc'[w] = "done" /\ ret'[w].ok)
                => PhaseOf(pc[w]) = 4 /\ txEnd'[w] = "committed"]_vars

\* C28 witness: one composite went through all its steps and committed, and
\* another, refused the name with timeout 0, ended at the acquire.
C28_Witness ==
  \E v, w \in Workers :
    /\ op[v] = "Product" /\ pc[v] = "done" /\ ret[v].ok /\ txEnd[v] = "committed"
    /\ products[arg[v].name] # Absent
    /\ op[w] \in CompositeOps /\ pc[w] = "done" /\ arg[w].timeout = 0
    /\ ret[w].err \in {"failed to acquire lock: result 0", "failed to acquire lock: result false"}
    /\ txEnd[w] = "rolledback"

\* C29: release and commit take effect together: no session is granted the
\* named lock of a code while another session, which held that lock for its
\* guarded section, still has uncommitted writes.
C29_ReleaseCommitAtomic ==
  [][\A w \in Workers :
       ( /\ pc[w] \in LockPcs /\ pc'[w] # pc[w]
         /\ nlock'[arg[w].name][LockConn(w)] > nlock[arg[w].name][LockConn(w)] )
       => \A v \in Workers \ {w} :
            ~(op[v] \in GuardedOps /\ arg[v].name = arg[w].name /\ pend[v] # NoPend)]_vars

\* The positions of the FOR UPDATE reads and the rows each one reads.
ReadPcs == {"p_read", "q_inv", "q_ord"}
ReadKey(w) ==
  CASE pc[w] = "p_read" -> ProductKey(w)
    [] pc[w] = "q_inv" -> InventoryKey(w)
    [] OTHER -> OrderKey(w)

\* C30: guarded sections that touch the same record serialize on its FOR
\* UPDATE read whatever the named lock does: the read of a row returns only
\* when no other open transaction has read or written that row, a
\* transaction keeps the row until it ends, and so no update is lost: the
\* committed quantity is the initial one plus the deltas of the successful
\* calls.
C30_SerializedOnRow ==
  /\ [][\A w \in Workers :
          (pc[w] \in ReadPcs /\ pc'[w] \notin {pc[w], "done"})
          => /\ rlock[ReadKey(w)] \in {0, w}
             /\ rlock'[ReadKey(w)] = w
             /\ \A v \in Workers \ {w} : txEnd[v] = "open" => rlock[ReadKey(w)] # v]_vars
  /\ [][\A k \in RowKeys : \A v \in Workers :
          (rlock[k] = v /\ rlock'[k] # v)
          => txEnd[v] = "open" /\ txEnd'[v] \in {"committed", "rolledback"}]_vars
  /\ [](/\ insCnt["P001"] = 1 => products["P001"] = okSum["Product"]["P001"]
        /\ \A r \in inventory : r.pid = 1 => r.qty = 10 + okSum["Process"]["P001"])

\* C30 witness: a call holds the named lock of P001 and stands before its FOR
\* UPDATE read of the existing inventory row, which cannot return: another
\* call, which has released the named lock, has updated that row and not yet
\* committed.
C30_Witness ==
  \E v, w \in Workers :
    /\ v # w
    /\ op[v] = "Process" /\ pc[v] = "q_commit" /\ txEnd[v] = "open"
    /\ pend[v].inv # {} /\ rlock[InventoryKey(v)] = v
    /\ op[w] = "Process" /\ pc[w] = "q_inv" /\ arg[w].name = arg[v].name
    /\ Holds(tx[w], arg[w].name)
    /\ ~ForUpdate(w, InventoryKey(w)).can

\* C31: when AcquireLock is granted the name, the session id it goes on to
\* report is the id of the session that acquired: at the moment of the grant
\* the owner of the name, as GetLockOwner would answer it, is the id the call
\* has read for itself, whichever pooled connections served its queries.
C31_ReportedIdIsOwner ==
  [][\A w \in Workers :
       (op[w] = "AcquireLock" /\ pc[w] = "al_lock" /\ pc'[w] = "al_hist")
       => GetLockOwnerAnswer(NullInt(TRUE, cur[w])).sid = FormatInt(loc[w].sid)]_vars

\* C32: a ReleaseLock frees a name only for the caller whose AcquireLock
\* acquired it: while the AcquireLock of another caller, granted the name, has
\* not yet returned (so that its caller cannot have asked for the release),
\* no ReleaseLock takes the name away, and the name is still held after it.
C32_ReleaseOnlyOwnLock ==
  [][\A w \in Workers :
       (op[w] = "ReleaseLock" /\ pc[w] = "rl_rel" /\ pc'[w] # pc[w])
       => \A v \in Workers \ {w} :
            ( /\ op[v] = "AcquireLock" /\ pc[v] = "al_hist"
              /\ arg[v].name = arg[w].name )
            => \E c \in Conns : nlock'[arg[w].name][c] > 0]_vars

\* C33: once a ReleaseLock has had its release answered 1 (it then returns
\* Released), and once a composite returns success, the session that
\* performed the release holds the name no more, whatever acquires were made
\* on that session before.
C33_ReleasedMeansNotHeld ==
  [][\A w \in Workers :
       /\ (op[w] = "ReleaseLock" /\ pc[w] = "rl_rel" /\ pc'[w] = "rl_hist")
          => nlock'[arg[w].name][cur[w]] = 0
       /\ (op[w] \in CompositeOps /\ Returns(w) /\ ret'[w].ok)
          => nlock'[arg[w].name][tx[w]] = 0]_vars

C35_StatusConsistent ==
  \A w \in Workers :
    (op[w] = "Status" /\ pc[w] = "done")
    => /\ ret[w].owned => (ret[w].locked /\ ret[w].owner = ret[w].sid)
       /\ ret[w].owner # EmptyStr <=> ret[w].locked

\* C35 witness: a status response that reports the name locked and owned by
\* the current session, next to one written on a failed IsLockFree.
C35_Witness ==
  \E v, w \in Workers :
    /\ op[v] = "Status" /\ pc[v] = "done" /\ ret[v].owned /\ ret[v].locked
    /\ ret[v].owner = ret[v].sid
    /\ op[w] = "Status" /\ pc[w] = "done" /\ ~ret[w].ok /\ ret[w].sid # EmptyStr
    /\ ret[w].owner = IF ret[w].locked THEN ret[v].owner ELSE EmptyStr

\* No service call is running.
Quiescent == \A w \in Workers : pc[w] \in {"idle", "done"}

PendingOrders(p) == {r \in orders : r.pid = p /\ r.status = "pending"}

\* C38: a successful AcquireProcessReleaseLock adds its delta to the oldest
\* pending order of the product and sets it to 'processing', or, when the
\* product has no pending order, inserts exactly one new 'pending' order whose
\* quantity is the delta; no other order changes, and an order that is
\* 'processing' is never modified again.
C38_OldestPendingOrder ==
  /\ [][\A w \in Workers :
          (op[w] = "Process" /\ Returns(w) /\ ret'[w].ok)
          => LET p == ProductID(arg[w].name)
                 rows == PendingOrders(p) IN
               IF rows # {}
               THEN LET r == CHOOSE x \in rows : \A y \in rows : x.id <= y.id IN
                      orders' = (orders \ {r})
                                  \cup {[r EXCEPT !.qty = r.qty + arg[w].qty,
                                                  !.status = "processing"]}
               ELSE \E n \in orders' \ orders :
                      /\ orders' = orders \cup {n}
                      /\ n.pid = p /\ n.qty = arg[w].qty /\ n.status = "pending"
                      /\ \A r \in orders : r.id # n.id]_vars
  /\ [][\A r \in orders : r.status = "processing" => r \in orders']_vars

\* C38 witness: three successful calls: the initial pending order took the
\* first delta, the second call inserted an order, and the third added to
\* that one; both are 'processing'.
C38_Witness ==
  /\ calls = MaxCalls /\ okSum["Process"]["P001"] = 9
  /\ \E a, b \in orders :
       /\ a.id < b.id
       /\ a.qty = 8 /\ a.status = "processing"
       /\ b.qty = 6 /\ b.status = "processing"
  /\ Cardinality(orders) = 2

\* The LockResponse the AcquireHoldReleaseLock handler writes for the pair
\* (sessionID, err) the service returned; the message is the prefix and the
\* error text.
HoldResponse(r) ==
  IF r.err # NoErr
  THEN [success |-> FALSE, session_id |-> r.sid, message |-> <<"Operation failed: ", r.err>>]
  ELSE [success |-> TRUE, session_id |-> r.sid, message |-> <<>>]

\* The steps of AcquireHoldReleaseLock whose failure returns sessionID.
HoldIdPcs == {"h_lock", "h_rel", "h_commit"}

\* C39: when AcquireHoldReleaseLock fails at the acquire (refused or
\* faulted), at the release or at the commit, it returns the session id read
\* before the acquire, which is the id of the transaction's connection; it
\* returns the empty id only when BeginTx or a session-id query failed; and
\* the handler's success=false response carries the returned id.
C39_FailureKeepsSessionId ==
  [][\A w \in Workers :
       (op[w] = "Hold" /\ Returns(w) /\ ~ret'[w].ok)
       => /\ ret'[w].err # NoErr
          /\ pc[w] \in HoldIdPcs
               => /\ loc[w].sid = tx[w]
                  /\ ret'[w].sid = FormatInt(loc[w].sid)
                  /\ ret'[w].sid # EmptyStr
          /\ ret'[w].sid = EmptyStr
               => pc[w] \in {"h_begin", "h_sid1", "h_sid2", "h_sid3"}
          /\ pc[w] \in {"h_begin", "h_sid1", "h_sid2", "h_sid3"}
               => ret'[w].sid = EmptyStr
          /\ HoldResponse(ret'[w]).success = FALSE
          /\ HoldResponse(ret'[w]).session_id = ret'[w].sid]_vars

\* C39 witness: one call was refused the lock and another failed at commit;
\* both returned a session id with the error.
C39_Witness ==
  \E w, v \in Workers :
    /\ w # v
    /\ op[w] = "Hold" /\ pc[w] = "done" /\ ~ret[w].ok
    /\ ret[w].err = "failed to acquire lock: result 0" /\ ret[w].sid # EmptyStr
    /\ op[v] = "Hold" /\ pc[v] = "done" /\ ~ret[v].ok
    /\ ret[v].err = "failed to commit transaction" /\ ret[v].sid # EmptyStr
    /\ HoldResponse(ret[v]).session_id = ret[v].sid

====
